---- MODULE Spec2Model ----
(***************************************************************************)
(* NewsContextGPT: the retrieval-and-session core.                         *)
(*                                                                         *)
(*   - the in-memory vector store and its similarity search                *)
(*     (backend/storage.ts: addEmbeddingToVectorStore, cosineSimilarity,   *)
(*     searchVectorStore),                                                 *)
(*   - the RAG orchestrator (rag.ts: processUserQuery),                    *)
(*   - the session cache (redis.ts) and MemStorage,                        *)
(*   - the WebSocket transport (websocket.ts) and POST /api/chat.          *)
(*                                                                         *)
(* Every await of the source is a point where another handler may run;     *)
(* the code between two awaits is one atomic step.                         *)
(***************************************************************************)
EXTENDS Integers, Sequences, FiniteSets, TLC

VARIABLES
    vectorStore,        \* storage.ts:247   const vectorStore: Document[]
    lastSearch,         \* outcome of the most recent searchVectorStore call
    newsArticles,       \* MemStorage.newsArticles: article id -> title
    memoryCache,        \* redis.ts:5       in-process cache, key -> value
    genCalls,           \* number of calls made to the generation gateway
    lastRag,            \* outcome of the most recent processUserQuery call
    chatSessions,       \* MemStorage.chatSessions, in creation order
    chatMessages,       \* MemStorage.chatMessages, in creation order
    chatSessionId,      \* storage.ts:55   next chat session id
    chatMessageId,      \* storage.ts:56   next chat message id
    conns,              \* the WebSocket connections accepted so far
    sessions,           \* websocket.ts:15  session id -> connection
    tasks,              \* the message / request handlers started so far
    connectionAttempts, \* websocket.ts:51  ip -> attempt counter
    timers,             \* pending decay timers, ip -> deadlines
    now,                \* the clock, in ms
    lastAttempt,        \* outcome of the most recent connection attempt
    redisClient,        \* redis.ts:55    the tier the cache functions use
    redisStatus,        \* the connection of the Redis client
    redisData,          \* the keys held by the Redis server
    cacheLog,           \* what the cache functions have done so far
    lastHttp,           \* the most recent answer of a chat history route
    embed,              \* embedding.ts     NODE_ENV and the generateEmbedding calls made
    provider,           \* ConnectionProvider.tsx:31-67  the state of the component
    effect,             \* ConnectionProvider.tsx:217-236  the timers of the periodic effect
    checks,             \* the checkConnection calls started so far
    clientLog           \* what the connection checks have done so far

searchVars == <<vectorStore, lastSearch>>
ragVars    == <<newsArticles, memoryCache, genCalls, lastRag>>
storeVars  == <<chatSessions, chatMessages, chatSessionId, chatMessageId>>
wsVars     == <<conns, sessions, tasks>>
admVars    == <<connectionAttempts, timers, now, lastAttempt>>
cacheVars  == <<redisClient, redisStatus, redisData, cacheLog, lastHttp>>
embedVars  == <<embed>>
clientVars == <<provider, effect, checks, clientLog>>
vars == <<vectorStore, lastSearch, newsArticles, memoryCache, genCalls, lastRag,
          chatSessions, chatMessages, chatSessionId, chatMessageId,
          conns, sessions, tasks,
          connectionAttempts, timers, now, lastAttempt,
          redisClient, redisStatus, redisData, cacheLog, lastHttp,
          embed, provider, effect, checks, clientLog>>

\* generateEmbedding resolving to null (embedding.ts:53)
NullEmbedding == <<>>
None == [kind |-> "none"]

(***************************************************************************)
(* Bounds of the model.                                                    *)
(***************************************************************************)
MaxDocs == 3
MaxK == 3
MaxRagDocs == 2
MaxArticles == 2
MaxTurns == 1
MaxConns == 1
MaxTasks == 2
MaxAdmConns == 7
MaxTicks == 2
MaxLifeConns == 2
MaxPushes == 1

(***************************************************************************)
(* Embedding vectors.  Integer components keep the arithmetic exact; the   *)
(* set holds vectors of two dimensions (3 and 2), the zero vector, pairs   *)
(* at cosine exactly 1/2, ties, and a negative cosine.                     *)
(***************************************************************************)
Vectors ==
    { <<1, 0, 0>>, <<1, 1, 0>>, <<1, 0, 1>>, <<0, 0, 0>>, <<-1, 0, 0>>,
      <<1, 0>> }

\* What a query may embed to.
QueryVectors == { <<1, 0, 0>>, <<1, 1, 0>>, <<0, 0, 0>>, <<1, 0>> }

RECURSIVE SumTo(_, _)
SumTo(f, n) == IF n = 0 THEN 0 ELSE f[n] + SumTo(f, n - 1)

Dot(a, b) == SumTo([i \in 1..Len(a) |-> a[i] * b[i]], Len(a))

(***************************************************************************)
(* A similarity score is kept exactly, as the pair (num, den2) standing    *)
(* for num / sqrt(den2), den2 > 0.                                         *)
(***************************************************************************)
Score(n, d2) == [num |-> n, den2 |-> d2]

Sq(x) == x * x

SignedSq(x) == IF x < 0 THEN 0 - Sq(x) ELSE Sq(x)

\* s < t:  n1/sqrt(d1) < n2/sqrt(d2)  <=>  sgn(n1) n1^2 d2 < sgn(n2) n2^2 d1
ScoreLess(s, t) == SignedSq(s.num) * t.den2 < SignedSq(t.num) * s.den2

\* s > 0.5:  2 n > sqrt(d)  <=>  n > 0 /\ 4 n^2 > d
ScoreAboveHalf(s) == s.num > 0 /\ 4 * Sq(s.num) > s.den2

\* Mutant: the norms are not tested before the division.
cosineSimilarityUnguarded(a, b) == Score(Dot(a, b), Dot(a, a) * Dot(b, b))

\* storage.ts:278-301.  Callers check the dimensions first (DimMismatch):
\* the throw of lines 279-281 is modelled in searchVectorStore.
cosineSimilarity(a, b) ==
    IF Dot(a, a) = 0 \/ Dot(b, b) = 0
    THEN Score(0, 1)
    ELSE Score(Dot(a, b), Dot(a, a) * Dot(b, b))

\* storage.ts:279  a.length !== b.length
DimMismatch(a, b) == Len(a) # Len(b)

(***************************************************************************)
(* Vector store (storage.ts:239-346).  A Document is                       *)
(* [id, articleId, chunkText, embedding]; callers pass distinct chunk      *)
(* texts, modelled by the number of the chunk.                             *)
(***************************************************************************)
Min(a, b) == IF a < b THEN a ELSE b

Range(f) == { f[i] : i \in DOMAIN f }

\* storage.ts:326-329  vectorStore.map(doc => ({...doc, score}))
ScoreAll(store, qe) ==
    [i \in 1..Len(store) |->
        [articleId |-> store[i].articleId,
         chunkText |-> store[i].chunkText,
         score     |-> cosineSimilarity(qe, store[i].embedding)]]

\* Mutant: ties are moved too, as an unstable sort may do.
SortsAfterUnstable(a, b) == ~ScoreLess(b.score, a.score)

\* storage.ts:332  comparator (a, b) => b.score - a.score is positive,
\* i.e. a is moved behind b, exactly when a.score < b.score
SortsAfter(a, b) == ScoreLess(a.score, b.score)

\* Array.prototype.sort is stable: x, which follows every element of
\* `sorted` in the input, goes in front of the first element it beats.
RECURSIVE InsertSorted(_, _)
InsertSorted(sorted, x) ==
    IF sorted = <<>> THEN <<x>>
    ELSE IF SortsAfter(Head(sorted), x)
         THEN <<x>> \o sorted
         ELSE <<Head(sorted)>> \o InsertSorted(Tail(sorted), x)

RECURSIVE SortPrefix(_, _)
SortPrefix(seq, n) ==
    IF n = 0 THEN <<>> ELSE InsertSorted(SortPrefix(seq, n - 1), seq[n])

\* storage.ts:332  results.sort(...)
SortByScoreDesc(seq) == SortPrefix(seq, Len(seq))

\* storage.ts:336  .slice(0, k), k >= 0
SliceTopK(seq, k) == SubSeq(seq, 1, Min(k, Len(seq)))

\* Mutant: the threshold test written >= 0.5.
PassesThresholdInclusive(doc) ==
    doc.score.num > 0 /\ 4 * Sq(doc.score.num) >= doc.score.den2

\* storage.ts:337  doc.score > 0.5
PassesThreshold(doc) == ScoreAboveHalf(doc.score)

\* storage.ts:338-341  .map(doc => ({articleId, chunkText}))
StripScore(seq) ==
    [i \in 1..Len(seq) |->
        [articleId |-> seq[i].articleId, chunkText |-> seq[i].chunkText]]

\* Mutant: the catch block rethrows.
SearchCatchRethrow(cause) == [kind |-> "throw", error |-> cause, docs |-> <<>>]

\* storage.ts:342-345  catch (error) { console.error(...); return []; }
SearchCatch(cause) == [kind |-> "return", error |-> cause, docs |-> <<>>]

\* storage.ts:310-346.  qe is what generateEmbedding(query) resolved to.
searchVectorStore(store, qe, k) ==
    IF qe = NullEmbedding
    THEN SearchCatch("embedding")                       \* lines 321-323
    ELSE IF \E i \in 1..Len(store) : DimMismatch(qe, store[i].embedding)
    THEN SearchCatch("dimension")                       \* lines 279-281, 328
    ELSE [kind  |-> "return",
          error |-> "none",
          docs  |-> StripScore(SelectSeq(
                        SliceTopK(SortByScoreDesc(ScoreAll(store, qe)), k),
                        PassesThreshold))]

\* storage.ts:257-269  vectorStore.push({id, articleId, chunkText, embedding})
addEmbeddingToVectorStore(articleId, embedding) ==
    /\ Len(vectorStore) < MaxDocs
    /\ vectorStore' = Append(vectorStore,
            [id        |-> Len(vectorStore) + 1,
             articleId |-> articleId,
             chunkText |-> Len(vectorStore) + 1,
             embedding |-> embedding])
    /\ lastSearch' = None

\* Mutant: the index itself is sorted by the search.
SearchCallSortsInPlace(qe, k) ==
    /\ lastSearch' = [call |-> [qe |-> qe, k |-> k]]
                        @@ searchVectorStore(vectorStore, qe, k)
    /\ vectorStore' =
           IF searchVectorStore(vectorStore, qe, k).error # "none" THEN vectorStore
           ELSE [n \in 1..Len(vectorStore) |->
                    vectorStore[SortByScoreDesc(ScoreAll(vectorStore, qe))[n].chunkText]]

\* A call searchVectorStore(query, k) whose query embeds to qe.
SearchCall(qe, k) ==
    /\ lastSearch' = [call |-> [qe |-> qe, k |-> k]]
                        @@ searchVectorStore(vectorStore, qe, k)
    /\ UNCHANGED vectorStore

InitSearch ==
    /\ vectorStore = <<>>
    /\ lastSearch = None

(***************************************************************************)
(* SpecSearch: the vector store alone.  Chunks are added and searched;     *)
(* a search draws the query embedding (or the embedding failure) and k.    *)
(***************************************************************************)
SearchAdd ==
    /\ \E e \in Vectors : addEmbeddingToVectorStore(1, e)
    /\ UNCHANGED <<ragVars, storeVars, wsVars, admVars>>
    /\ UNCHANGED cacheVars
    /\ UNCHANGED <<embedVars, clientVars>>

SearchQuery ==
    /\ \E qe \in QueryVectors \cup {NullEmbedding}, k \in 0..MaxK : SearchCall(qe, k)
    /\ UNCHANGED <<ragVars, storeVars, wsVars, admVars>>
    /\ UNCHANGED cacheVars
    /\ UNCHANGED <<embedVars, clientVars>>

NextSearch == SearchAdd \/ SearchQuery

(***************************************************************************)
(* Session cache, in-process tier (redis.ts:5-49): key -> value.           *)
(***************************************************************************)
HistoryKey(sessionId)  == <<"chat", sessionId>>             \* redis.ts:102
MessagesKey(sessionId) == <<"chat_messages", sessionId>>    \* redis.ts:118

\* Mutant: the value is appended.
MemRPush(cache, key, value) ==
    LET list == IF key \in DOMAIN cache THEN cache[key] ELSE <<>>
    IN  (key :> Append(list, value)) @@ cache

\* redis.ts:30-38  MemoryRedis.lpush: list.unshift(value)
MemLPush(cache, key, value) ==
    LET list == IF key \in DOMAIN cache THEN cache[key] ELSE <<>>
    IN  (key :> (<<value>> \o list)) @@ cache

\* redis.ts:97-108  lpush, then expire (a no-op of the in-process tier)
addChatToHistory(cache, sessionId, chatData) ==
    MemLPush(cache, HistoryKey(sessionId), chatData)

(***************************************************************************)
(* RAG orchestrator (rag.ts:18-84).                                        *)
(***************************************************************************)
NoInfoMsg  == "I'm sorry, but I couldn't find any relevant information"   \* rag.ts:25
ErrorMsg   == "I encountered an error"                                    \* rag.ts:80
ApologyMsg == "I apologize, but I'm having trouble generating a response" \* gemini.ts:29
Generated  == "generated answer"                                          \* gemini.ts:26

\* rag.ts:21  searchVectorStore(query, 5)
RagTopK == 5

\* Mutant: the article ids are not deduplicated.
DistinctIdsRepeated(docs) == [i \in 1..Len(docs) |-> docs[i].articleId]

\* rag.ts:31  [...new Set(relevantDocs.map(doc => doc.articleId))]:
\* the distinct ids, in the order of their first appearance
RECURSIVE DistinctIds(_)
DistinctIds(docs) ==
    IF docs = <<>> THEN <<>>
    ELSE LET init == DistinctIds(SubSeq(docs, 1, Len(docs) - 1))
             id   == docs[Len(docs)].articleId
         IN  IF id \in Range(init) THEN init ELSE Append(init, id)

\* storage.ts:107-109  getNewsArticleById: the article, or undefined
ArticleFound(articles, id) == id \in DOMAIN articles

\* rag.ts:37, 63  the titles of the articles that were found
RECURSIVE TitlesOf(_, _)
TitlesOf(articles, ids) ==
    IF ids = <<>> THEN <<>>
    ELSE IF ArticleFound(articles, Head(ids))
         THEN <<articles[Head(ids)]>> \o TitlesOf(articles, Tail(ids))
         ELSE TitlesOf(articles, Tail(ids))

\* Mutant: a failed generation yields no text.
generateGeminiResponseNoText(genFails) == IF genFails THEN "" ELSE Generated

\* gemini.ts:9-31  the generated text, or the apology when generation fails
generateGeminiResponse(genFails) == IF genFails THEN ApologyMsg ELSE Generated

\* Mutant: the early exit is skipped.
NoRelevantDocsIgnored(docs) == FALSE

\* rag.ts:23  !relevantDocs || relevantDocs.length === 0
NoRelevantDocs(docs) == Len(docs) = 0

\* A rejection inside the try block, before generation was reached.
Thrown == [kind |-> "throw", raised |-> TRUE, message |-> "", sources |-> <<>>,
           genCalled |-> FALSE, persisted |-> FALSE]

\* rag.ts:19-76  the try block.  lookupFails: a getNewsArticleById promise
\* rejects; genFails: the generation provider fails.
RagTry(store, articles, qe, lookupFails, genFails) ==
    LET search == searchVectorStore(store, qe, RagTopK)
    IN  IF search.kind = "throw" THEN Thrown
        ELSE IF NoRelevantDocs(search.docs)
        THEN [kind |-> "return", raised |-> FALSE,
              message |-> NoInfoMsg, sources |-> <<>>,
              genCalled |-> FALSE, persisted |-> FALSE]
        ELSE IF lookupFails THEN Thrown
        ELSE [kind      |-> "return",
              raised    |-> FALSE,
              message   |-> generateGeminiResponse(genFails),
              sources   |-> TitlesOf(articles, DistinctIds(search.docs)),
              genCalled |-> TRUE,
              persisted |-> TRUE]

\* Mutant: the catch block rethrows.
RagCatchRethrow(r) == r

\* rag.ts:77-83  catch (error) { return {message: "I encountered...", []} }
RagCatch(r) == [r EXCEPT !.kind = "return", !.message = ErrorMsg, !.sources = <<>>]

\* rag.ts:18-84
processUserQuery(store, articles, qe, lookupFails, genFails) ==
    LET r == RagTry(store, articles, qe, lookupFails, genFails)
    IN  IF r.kind = "throw" THEN RagCatch(r) ELSE r

\* rag.ts:66-71  the turn that is persisted
Turn(query, r) ==
    [query |-> query, response |-> r.message, sources |-> r.sources,
     timestamp |-> <<"iso", now>>]

\* The effect of one processUserQuery call on the cache and the gateway.
RagEffects(sessionId, query, r) ==
    /\ genCalls' = IF r.genCalled THEN genCalls + 1 ELSE genCalls
    /\ memoryCache' = IF r.persisted
                      THEN addChatToHistory(memoryCache, sessionId, Turn(query, r))
                      ELSE memoryCache

InitRagEmpty ==
    /\ newsArticles = <<>>
    /\ memoryCache = <<>>
    /\ genCalls = 0
    /\ lastRag = None

InitStore ==
    /\ chatSessions = <<>>
    /\ chatMessages = <<>>
    /\ chatSessionId = 1
    /\ chatMessageId = 1

InitWs ==
    /\ conns = <<>>
    /\ sessions = <<>>
    /\ tasks = <<>>

InitAdm ==
    /\ connectionAttempts = <<>>
    /\ timers = <<>>
    /\ now = 0
    /\ lastAttempt = None

NoCacheOp ==
    [op |-> "none", tier |-> "memory", failed |-> FALSE, degradedBefore |-> FALSE,
     commands |-> <<>>]

NoCacheLog == [degraded |-> FALSE, fellBack |-> FALSE, pushed |-> <<>>,
               ops |-> 0, last |-> NoCacheOp, ttl |-> <<>>]

\* redis.ts:52-55, 86-88  no Redis configured: the in-process tier
InitCache ==
    /\ redisClient = "memory"
    /\ redisStatus = "unconfigured"
    /\ redisData = <<>>
    /\ cacheLog = NoCacheLog
    /\ lastHttp = None

\* embedding.ts:47  process.env.NODE_ENV, fixed when the process starts
InitEmbed == embed = [env |-> "production", calls |-> <<>>, charFreq |-> <<>>]

\* ConnectionProvider.tsx:31-67  the useState initial values; startup is
\* where the offline preference was found (lines 35-66), "none" if nowhere
InitialProvider(startup) ==
    [mounted            |-> FALSE,
     startup            |-> startup,
     status             |-> "connecting",
     isReachable        |-> FALSE,
     lastChecked        |-> FALSE,
     checkCount         |-> 0,
     offlineMode        |-> startup # "none",
     connectionAttempts |-> 0,
     stored             |-> startup = "stored"]

\* No timer is pending.
NoEffect == [quickCheck |-> FALSE, interval |-> FALSE,
             offlineMode |-> FALSE, connectionAttempts |-> 0]

NoClientLog == [started |-> 0, toasts |-> {},
                failedRun |-> 0, timerOnly |-> TRUE, last |-> None,
                toggle |-> [kind |-> "none"]]

InitClient ==
    /\ provider = InitialProvider("none")
    /\ effect = NoEffect
    /\ checks = <<>>
    /\ clientLog = NoClientLog

InitFront == InitEmbed /\ InitClient

Init ==
    /\ InitSearch /\ InitRagEmpty /\ InitStore /\ InitWs /\ InitAdm /\ InitCache
    /\ InitFront

SpecSearch == Init /\ [][NextSearch]_vars

(***************************************************************************)
(* Claims about the vector store.  The cosine of the claims is the         *)
(* mathematical one, dot / (|a| |b|), stated on the dot products.          *)
(***************************************************************************)
\* cos(a, b) > 1/2
CosAboveHalf(a, b) ==
    /\ Len(a) = Len(b)
    /\ Dot(a, b) > 0
    /\ 4 * Sq(Dot(a, b)) > Dot(a, a) * Dot(b, b)

\* cos(q, a) < cos(q, b), for a, b, q of one dimension
CosLess(q, a, b) ==
    IF Dot(a, a) = 0 \/ Dot(q, q) = 0
    THEN Dot(b, b) # 0 /\ Dot(q, q) # 0 /\ Dot(q, b) > 0
    ELSE IF Dot(b, b) = 0
    THEN Dot(q, a) < 0
    ELSE SignedSq(Dot(q, a)) * Dot(b, b) < SignedSq(Dot(q, b)) * Dot(a, a)

\* The stored embedding of the chunk a result item came from.
EmbeddingOf(item) == vectorStore[item.chunkText].embedding

SearchDone == lastSearch.kind # "none"

\* C1: a search returns at most k results, each with cosine similarity
\* strictly above 0.5 to the query, in non-increasing order of similarity.
C1_SearchBoundedSorted ==
    SearchDone =>
        LET docs == lastSearch.docs
            qe   == lastSearch.call.qe
        IN  /\ lastSearch.kind = "return"
            /\ Len(docs) <= lastSearch.call.k
            /\ \A i \in 1..Len(docs) : CosAboveHalf(qe, EmbeddingOf(docs[i]))
            /\ \A i, j \in 1..Len(docs) :
                   i < j => ~CosLess(qe, EmbeddingOf(docs[i]), EmbeddingOf(docs[j]))

\* C1 witness: a search that returned two chunks of different similarity,
\* cut at k, while the store also holds a chunk at cosine exactly 1/2.
C1_Witness ==
    /\ SearchDone
    /\ Len(lastSearch.docs) = 2
    /\ lastSearch.call.k = 2
    /\ Len(vectorStore) = 3
    /\ CosLess(lastSearch.call.qe, EmbeddingOf(lastSearch.docs[2]),
               EmbeddingOf(lastSearch.docs[1]))
    /\ \E i \in 1..Len(vectorStore) :
           LET e == vectorStore[i].embedding
               q == lastSearch.call.qe
           IN  Dot(q, e) > 0 /\ 4 * Sq(Dot(q, e)) = Dot(q, q) * Dot(e, e)

\* The chunks whose similarity to the query is defined and above 0.5.
Qualifying(store, qe) ==
    { i \in 1..Len(store) : CosAboveHalf(qe, store[i].embedding) }

\* Chunk i ranks before chunk j: more similar, or as similar and added earlier.
RanksBefore(store, qe, i, j) ==
    \/ CosLess(qe, store[j].embedding, store[i].embedding)
    \/ /\ ~CosLess(qe, store[i].embedding, store[j].embedding)
       /\ i < j

\* The n-th chunk of the ranking of the qualifying chunks.
Ranked(store, qe, n) ==
    CHOOSE i \in Qualifying(store, qe) :
        Cardinality({ j \in Qualifying(store, qe) :
                        RanksBefore(store, qe, j, i) }) = n - 1

\* The first k chunks of that ranking.
TopK(store, qe, k) ==
    [n \in 1..Min(k, Cardinality(Qualifying(store, qe))) |->
        [articleId |-> store[Ranked(store, qe, n)].articleId,
         chunkText |-> store[Ranked(store, qe, n)].chunkText]]

DimsAgree(store, qe) ==
    \A i \in 1..Len(store) : Len(store[i].embedding) = Len(qe)

SessionIds == { <<"client", 1>>, <<"client", 2>> }

\* What a query may embed to in SpecRag: a vector of the chunks' dimension,
\* a vector of another dimension, or the embedding failure.
RagQueryVectors == { <<1, 0, 0>>, <<1, 0>>, NullEmbedding }

\* routes.ts (part_004:55): ingestion is awaited before the chat routes
\* exist, so articles and chunks are stored before the first query.
Ingesting == lastRag = None /\ genCalls = 0

\* storage.ts:111-120  createNewsArticle: id = newsArticleId++
RagCreateArticle ==
    /\ Ingesting
    /\ Len(newsArticles) < MaxArticles
    /\ newsArticles' = Append(newsArticles, <<"title", Len(newsArticles) + 1>>)
    /\ UNCHANGED <<memoryCache, genCalls, lastRag>>
    /\ UNCHANGED <<searchVars, storeVars, wsVars, admVars>>
    /\ UNCHANGED cacheVars
    /\ UNCHANGED <<embedVars, clientVars>>

RagAdd ==
    /\ Ingesting
    /\ Len(vectorStore) < MaxRagDocs
    /\ \E a \in 1..MaxArticles : addEmbeddingToVectorStore(a, <<1, 0, 0>>)
    /\ UNCHANGED <<ragVars, storeVars, wsVars, admVars>>
    /\ UNCHANGED cacheVars
    /\ UNCHANGED <<embedVars, clientVars>>

\* The outcomes of the article lookup and of the generation provider are
\* drawn only for the queries that reach them.
ReachesLookup(qe) == searchVectorStore(vectorStore, qe, RagTopK).docs # <<>>

RagQuery ==
    \E sid \in SessionIds, qe \in RagQueryVectors :
    \E lookupFails \in IF ReachesLookup(qe) THEN BOOLEAN ELSE {FALSE} :
    \E genFails \in IF ReachesLookup(qe) /\ ~lookupFails THEN BOOLEAN ELSE {FALSE} :
        LET r == processUserQuery(vectorStore, newsArticles, qe, lookupFails, genFails)
        IN  /\ genCalls < MaxTurns
            /\ RagEffects(sid, "q", r)
            /\ lastRag' = [call |-> [sessionId |-> sid, qe |-> qe,
                                     indexSize |-> Len(vectorStore),
                                     lookupFails |-> lookupFails,
                                     genFails |-> genFails,
                                     genCallsBefore |-> genCalls],
                           search |-> searchVectorStore(vectorStore, qe, RagTopK)]
                          @@ r
            /\ lastSearch' = [call |-> [qe |-> qe, k |-> RagTopK]]
                                @@ searchVectorStore(vectorStore, qe, RagTopK)
            /\ UNCHANGED <<vectorStore, newsArticles>>
            /\ UNCHANGED <<storeVars, wsVars, admVars>>
    /\ UNCHANGED cacheVars
    /\ UNCHANGED <<embedVars, clientVars>>

NextRag == RagCreateArticle \/ RagAdd \/ RagQuery

SpecRag == Init /\ [][NextRag]_vars

RagDone == lastRag.kind # "none"

NoInfoResponse ==
    /\ lastRag.kind = "return"
    /\ lastRag.message = NoInfoMsg
    /\ lastRag.sources = <<>>

\* C3: with an empty index, processUserQuery returns the fixed "couldn't
\* find any relevant information" message with no sources, for any session
\* and query, and the search yields the empty sequence, not an error.
C3_EmptyIndexNoInfo ==
    (RagDone /\ lastRag.call.indexSize = 0) =>
        /\ NoInfoResponse
        /\ lastRag.search.kind = "return"
        /\ lastRag.search.docs = <<>>

\* C3 witness: a query whose embedding succeeded, answered over the empty index.
C3_Witness ==
    /\ RagDone
    /\ lastRag.call.indexSize = 0
    /\ lastRag.call.qe = <<1, 0, 0>>
    /\ lastRag.message = NoInfoMsg

\* C4: when the query's embedding fails, processUserQuery returns the fixed
\* insufficient-information response with no sources and the generation
\* gateway is not called for that query.
C4_EmbeddingFailureShortCircuits ==
    (RagDone /\ lastRag.call.qe = NullEmbedding) =>
        /\ NoInfoResponse
        /\ ~lastRag.genCalled
        /\ genCalls = lastRag.call.genCallsBefore

\* C4 witness: an embedding failure over an index in which a chunk would
\* have matched.
C4_Witness ==
    /\ RagDone
    /\ lastRag.call.qe = NullEmbedding
    /\ lastRag.call.indexSize > 0
    /\ lastRag.message = NoInfoMsg

\* C5: processUserQuery always returns normally; when a step of the
\* pipeline raised, it returns the fixed "I encountered an error" message
\* with no sources.
C5_NeverPropagates ==
    RagDone =>
        /\ lastRag.kind = "return"
        /\ (lastRag.call.lookupFails /\ lastRag.search.docs # <<>>) => lastRag.raised
        /\ lastRag.raised => (lastRag.message = ErrorMsg /\ lastRag.sources = <<>>)

\* C5 witness: the article lookup raised after chunks were retrieved and
\* the call returned the error response.
C5_Witness ==
    /\ RagDone
    /\ lastRag.call.lookupFails
    /\ lastRag.call.indexSize > 0
    /\ lastRag.kind = "return"
    /\ lastRag.message = ErrorMsg


(***************************************************************************)
(* Chat store (MemStorage, storage.ts:131-201).                            *)
(***************************************************************************)
\* storage.ts:140-143  whether a session record carries this sessionId
getChatSessionBySessionId(sessionId) ==
    \E i \in DOMAIN chatSessions : chatSessions[i].sessionId = sessionId

\* storage.ts:145-154  no look-up of an existing record precedes the insert
\* (task: the handler that created the record, kept for the claims)
createChatSession(t, sessionId) ==
    /\ chatSessions' = Append(chatSessions,
                              [id |-> chatSessionId, sessionId |-> sessionId, task |-> t])
    /\ chatSessionId' = chatSessionId + 1

\* storage.ts:165-169  the session's messages by createdAt; the sort is
\* stable and the clock does not run backwards: creation order
getChatMessagesBySessionId(messages, sessionId) ==
    SelectSeq(messages, LAMBDA m : m.sessionId = sessionId)

\* storage.ts:171-178  the record createChatMessage inserts (task: the
\* handler that inserted it, kept for the ordering claims)
NewChatMessage(t, sessionId, content, isUser, sources) ==
    [id |-> chatMessageId, sessionId |-> sessionId, content |-> content,
     isUser |-> isUser, sources |-> sources, task |-> t]

\* redis.ts:25-28, 133-141  MemoryRedis.set under the chat_messages key
setSessionMessages(cache, sessionId, messages) ==
    (MessagesKey(sessionId) :> messages) @@ cache

(***************************************************************************)
(* WebSocket transport (websocket.ts) and POST /api/chat (routes.ts).      *)
(* A handler is a task; pc is the await it is suspended at.  The awaits of *)
(* the chat store and of the in-process cache resume as microtasks, which  *)
(* run before the next event is dispatched; the orchestrator waits for the *)
(* embedding and generation providers.  Frames that arrive together on one *)
(* connection are dispatched back to back, before any microtask runs.      *)
(***************************************************************************)
MAX_ATTEMPTS == 5
RESET_TIME == 60000
PolicyViolation == 1008     \* websocket.ts:63
PING_INTERVAL == 30000      \* websocket.ts:103

IPs == {"a", "b"}

\* websocket.ts:76  nanoid(): a fresh id for every admitted connection
nanoid == <<"nanoid", Len(conns) + 1>>

BadJson == [json |-> FALSE, isNull |-> FALSE, sessionId |-> <<>>, message |-> ""]

\* A frame whose text is the JSON value null: it parses, to no object.
NullJson == [json |-> TRUE, isNull |-> TRUE, sessionId |-> <<>>, message |-> ""]

Payload(sessionId, message) ==
    [json |-> TRUE, isNull |-> FALSE, sessionId |-> sessionId, message |-> message]

Frame(type, sessionId, message, sources, t) ==
    [type |-> type, sessionId |-> sessionId, message |-> message,
     sources |-> sources, task |-> t]

ConnectionFrame(sessionId) == Frame("connection", sessionId, "Connected to chat server", <<>>, 0)
WelcomeFrame(sessionId)    == Frame("bot", sessionId, "Hello! I'm your news assistant", <<>>, 0)
ParseErrorFrame(t)  == Frame("error", <<>>, "Failed to parse message format", <<>>, t)
FormatErrorFrame(t) == Frame("error", <<>>, "Invalid message format", <<>>, t)
HandlerErrorFrame(t) == Frame("error", <<>>, "Error processing your message", <<>>, t)

\* websocket.ts:59, 66  connectionAttempts.get(ip) || 0
Attempts(ip) == IF ip \in DOMAIN connectionAttempts THEN connectionAttempts[ip] ELSE 0

\* Mutant: the threshold is never reached.
TooManyAttemptsNever(attempts) == FALSE

\* websocket.ts:60  attempts > MAX_ATTEMPTS
TooManyAttempts(attempts) == attempts > MAX_ATTEMPTS

\* A decay timer whose time has come runs before the next event.
TimerDue == timers # <<>> /\ Head(timers).due <= now

MicrotaskPcs == {"handoff", "created", "userCache", "storeBot", "botCache"}

Ready(t) == tasks[t].pc \in MicrotaskPcs

\* The microtask queue is first in, first out: of the handlers that wait at
\* the same await, the one that was started first resumes first.
InTurn(t) == \A u \in 1..(t - 1) : ~(Ready(u) /\ tasks[u].pc = tasks[t].pc)

\* No continuation is waiting to run: the next event can be dispatched.
Quiescent == ~TimerDue /\ \A t \in DOMAIN tasks : ~Ready(t)

\* The handlers that are waiting to run were all started by frames of
\* connection c in this same dispatch.
SameDispatch(c) ==
    /\ ~TimerDue
    /\ \A t \in DOMAIN tasks :
           Ready(t) => tasks[t].kind = "ws" /\ tasks[t].conn = c /\ ~tasks[t].resumed

\* Ghost of the admission claims: whether an earlier attempt in the
\* unbroken run of attempts from this address was refused.
RefusedBefore(ip) ==
    /\ lastAttempt.kind = "attempt"
    /\ lastAttempt.ip = ip
    /\ lastAttempt.outcome = "refused" \/ lastAttempt.refusedBefore

\* Mutant: the connection is not put into the registry.
RegisterSessionSkipped(registry, sessionId, c) == registry

\* websocket.ts:77  sessions.set(sessionId, ws)
RegisterSession(registry, sessionId, c) == (sessionId :> c) @@ registry

\* websocket.ts:55-103  wss.on('connection')
Connect(ip) ==
    LET attempts == Attempts(ip)
        c == Len(conns) + 1
    IN  IF TooManyAttempts(attempts)
        THEN /\ lastAttempt' = [kind |-> "attempt", ip |-> ip, at |-> now,
                                outcome |-> "refused", closeCode |-> PolicyViolation,
                                conn |-> 0, refusedBefore |-> RefusedBefore(ip)]
             /\ UNCHANGED <<conns, sessions, connectionAttempts, timers>>
        ELSE /\ connectionAttempts' = (ip :> attempts + 1) @@ connectionAttempts
             /\ timers' = Append(timers, [ip |-> ip, due |-> now + RESET_TIME])
             /\ sessions' = RegisterSession(sessions, nanoid, c)
             /\ conns' = Append(conns, [ip |-> ip, at |-> now, sessionId |-> nanoid,
                                        open |-> TRUE,
                                        \* whether the registry held the id when
                                        \* the first frame went out (lines 77, 85)
                                        registered |-> nanoid \in DOMAIN sessions',
                                        \* websocket.ts:99-103  the heartbeat
                                        pingInterval |-> TRUE,
                                        nextPing |-> now + PING_INTERVAL,
                                        pings |-> 0,
                                        closedAt |-> -1, unsentPushes |-> 0,
                                        sent |-> <<ConnectionFrame(nanoid), WelcomeFrame(nanoid)>>])
             /\ lastAttempt' = [kind |-> "attempt", ip |-> ip, at |-> now,
                                outcome |-> "admitted", closeCode |-> 0,
                                conn |-> c, refusedBefore |-> RefusedBefore(ip)]

\* Mutant: the decay timer clears the counter of the address.
DecayTimerClears ==
    /\ TimerDue
    /\ connectionAttempts' = [connectionAttempts EXCEPT ![Head(timers).ip] = 0]
    /\ timers' = Tail(timers)
    /\ UNCHANGED <<now, lastAttempt, conns, sessions, tasks>>
    /\ UNCHANGED <<searchVars, ragVars, storeVars>>
    /\ UNCHANGED cacheVars
    /\ UNCHANGED <<embedVars, clientVars>>

\* websocket.ts:72-74  the decay timer of one admitted attempt
DecayTimer ==
    /\ TimerDue
    /\ LET ip == Head(timers).ip
       IN  connectionAttempts' =
               [connectionAttempts EXCEPT ![ip] = IF @ - 1 > 0 THEN @ - 1 ELSE 0]
    /\ timers' = Tail(timers)
    /\ UNCHANGED <<now, lastAttempt, conns, sessions, tasks>>
    /\ UNCHANGED <<searchVars, ragVars, storeVars>>
    /\ UNCHANGED cacheVars
    /\ UNCHANGED <<embedVars, clientVars>>

\* Session ids a client may carry besides the one the server assigned.
WsSessionIds == { <<"client", 1>> }

\* The frames a client sends on connection c.
WsPayloads(c) ==
    { BadJson, NullJson, Payload(<<>>, "hello"), Payload(conns[c].sessionId, ""),
      Payload(conns[c].sessionId, "hello") }
    \cup { Payload(s, "hello") : s \in WsSessionIds }

\* The bodies of POST /api/chat; BadJson: a body the schema rejects.
PostBodies == { BadJson } \cup { Payload(s, "hello") : s \in WsSessionIds }

\* What the embedding provider resolves a chat message to.
WsQueryVectors == { <<1, 0, 0>>, NullEmbedding }

NoResponse == [message |-> "", sources |-> <<>>]

NoReply == [status |-> 0, sessionId |-> <<>>, message |-> "", sources |-> <<>>]

NewTask(kind, c, data, pc, existing, snapshot, reply) ==
    [kind |-> kind, conn |-> c, data |-> data, pc |-> pc, resumed |-> FALSE,
     existing |-> existing, snapshot |-> snapshot,
     response |-> NoResponse, reply |-> reply]

\* ws.send: the frame goes out if the socket is open; on a closed socket
\* nothing is sent and nothing is thrown
Send(cs, c, frame) == IF cs[c].open THEN [cs EXCEPT ![c].sent = Append(@, frame)] ELSE cs

\* Mutant: the parse error also closes the connection.
OnParseErrorCloses(cs, c, t) ==
    [cs EXCEPT ![c].sent = Append(@, ParseErrorFrame(t)), ![c].open = FALSE]

\* websocket.ts:119-126  catch (parseError) { ws.send(error); return; }
OnParseError(cs, c, t) == Send(cs, c, ParseErrorFrame(t))

\* Mutant: only the session id is validated.
InvalidMessageSessionOnly(data) == data.sessionId = <<>>

\* websocket.ts:129  !message.sessionId || !message.message
InvalidMessage(data) == data.sessionId = <<>> \/ data.message = ""

\* storage.ts:171-178  createChatMessage up to its first await: the insert
createChatMessage(t, sessionId, content, isUser, sources) ==
    /\ chatMessages' = Append(chatMessages,
                              NewChatMessage(t, sessionId, content, isUser, sources))
    /\ chatMessageId' = chatMessageId + 1

\* storage.ts:181  the messages of the session right after the insert
Snapshot(sessionId) == getChatMessagesBySessionId(chatMessages', sessionId)

\* websocket.ts:111-148  ws.on('message') up to its first await
WsReceive(c, data) ==
    LET t == Len(tasks) + 1
    IN  /\ conns[c].open
        /\ SameDispatch(c)
        /\ Len(tasks) < MaxTasks
        /\ IF ~data.json
           THEN /\ conns' = OnParseError(conns, c, t)
                /\ tasks' = Append(tasks, NewTask("ws", c, data, "done", FALSE, <<>>, NoReply))
                /\ UNCHANGED storeVars
           ELSE IF data.isNull
           THEN \* websocket.ts:129, 175-181  reading a field of null throws
                /\ conns' = Send(conns, c, HandlerErrorFrame(t))
                /\ tasks' = Append(tasks, NewTask("ws", c, data, "done", FALSE, <<>>, NoReply))
                /\ UNCHANGED storeVars
           ELSE IF InvalidMessage(data)
           THEN /\ conns' = Send(conns, c, FormatErrorFrame(t))
                /\ tasks' = Append(tasks, NewTask("ws", c, data, "done", FALSE, <<>>, NoReply))
                /\ UNCHANGED storeVars
           ELSE IF data.sessionId # conns[c].sessionId
           THEN /\ tasks' = Append(tasks,
                        NewTask("ws", c, data, "handoff",
                                getChatSessionBySessionId(data.sessionId), <<>>, NoReply))
                /\ UNCHANGED <<conns, storeVars>>
           ELSE /\ createChatMessage(t, data.sessionId, data.message, TRUE, <<>>)
                /\ tasks' = Append(tasks,
                        NewTask("ws", c, data, "userCache", FALSE,
                                Snapshot(data.sessionId), NoReply))
                /\ UNCHANGED <<conns, chatSessions, chatSessionId>>
        /\ UNCHANGED <<sessions, searchVars, ragVars, admVars>>
    /\ UNCHANGED cacheVars
    /\ UNCHANGED <<embedVars, clientVars>>

\* routes.ts:91-101, 131-134  app.post("/api/chat") up to its first await
PostReceive(body) ==
    /\ Quiescent
    /\ Len(tasks) < MaxTasks
    /\ IF ~body.json
       THEN tasks' = Append(tasks,
                NewTask("post", 0, body, "done", FALSE, <<>>,
                        [NoReply EXCEPT !.status = 500,
                                        !.message = "Failed to process chat message"]))
       ELSE tasks' = Append(tasks,
                NewTask("post", 0, body, "handoff",
                        getChatSessionBySessionId(body.sessionId), <<>>, NoReply))
    /\ UNCHANGED <<conns, sessions, searchVars, ragVars, storeVars, admVars>>
    /\ UNCHANGED cacheVars
    /\ UNCHANGED <<embedVars, clientVars>>

\* Mutant: the hand-off puts the socket into the registry under the
\* inbound session id.
HandoffRebinds(t) ==
    LET task == tasks[t]
    IN  /\ task.pc = "handoff"
        /\ InTurn(t)
        /\ sessions' = IF task.kind = "ws"
                       THEN (task.data.sessionId :> task.conn) @@ sessions
                       ELSE sessions
        /\ IF task.existing
           THEN /\ createChatMessage(t, task.data.sessionId, task.data.message, TRUE, <<>>)
                /\ tasks' = [tasks EXCEPT ![t].pc = "userCache", ![t].resumed = TRUE,
                                          ![t].snapshot = Snapshot(task.data.sessionId)]
                /\ UNCHANGED <<chatSessions, chatSessionId>>
           ELSE /\ createChatSession(t, task.data.sessionId)
                /\ tasks' = [tasks EXCEPT ![t].pc = "created", ![t].resumed = TRUE]
                /\ UNCHANGED <<chatMessages, chatMessageId>>
        /\ UNCHANGED <<conns, searchVars, ragVars, admVars>>
    /\ UNCHANGED cacheVars
    /\ UNCHANGED <<embedVars, clientVars>>

\* websocket.ts:139-148, routes.ts:102-113  if (!existingSession) create;
\* otherwise the user message is inserted
Handoff(t) ==
    LET task == tasks[t]
    IN  /\ task.pc = "handoff"
        /\ InTurn(t)
        /\ IF task.existing
           THEN /\ createChatMessage(t, task.data.sessionId, task.data.message, TRUE, <<>>)
                /\ tasks' = [tasks EXCEPT ![t].pc = "userCache", ![t].resumed = TRUE,
                                          ![t].snapshot = Snapshot(task.data.sessionId)]
                /\ UNCHANGED <<chatSessions, chatSessionId>>
           ELSE /\ createChatSession(t, task.data.sessionId)
                /\ tasks' = [tasks EXCEPT ![t].pc = "created", ![t].resumed = TRUE]
                /\ UNCHANGED <<chatMessages, chatMessageId>>
        /\ UNCHANGED <<conns, sessions, searchVars, ragVars, admVars>>
    /\ UNCHANGED cacheVars
    /\ UNCHANGED <<embedVars, clientVars>>

\* websocket.ts:144-148, routes.ts:109-113  the insert after the create
Created(t) ==
    LET task == tasks[t]
    IN  /\ task.pc = "created"
        /\ InTurn(t)
        /\ createChatMessage(t, task.data.sessionId, task.data.message, TRUE, <<>>)
        /\ tasks' = [tasks EXCEPT ![t].pc = "userCache", ![t].resumed = TRUE,
                                  ![t].snapshot = Snapshot(task.data.sessionId)]
        /\ UNCHANGED <<chatSessions, chatSessionId>>
        /\ UNCHANGED <<conns, sessions, searchVars, ragVars, admVars>>
    /\ UNCHANGED cacheVars
    /\ UNCHANGED <<embedVars, clientVars>>

\* storage.ts:182, websocket.ts:151-157, routes.ts:116  the cache is set to
\* the snapshot, the typing frame is sent, the orchestrator is called
UserCache(t) ==
    LET task == tasks[t]
    IN  /\ task.pc = "userCache"
        /\ InTurn(t)
        /\ memoryCache' = setSessionMessages(memoryCache, task.data.sessionId, task.snapshot)
        /\ conns' = IF task.kind = "ws"
                    THEN Send(conns, task.conn, Frame("typing", task.data.sessionId, "", <<>>, t))
                    ELSE conns
        /\ tasks' = [tasks EXCEPT ![t].pc = "rag", ![t].resumed = TRUE]
        /\ UNCHANGED <<newsArticles, genCalls, lastRag>>
        /\ UNCHANGED <<sessions, searchVars, storeVars, admVars>>
    /\ UNCHANGED cacheVars
    /\ UNCHANGED <<embedVars, clientVars>>

\* websocket.ts:157, routes.ts:116  processUserQuery resolves
Rag(t) ==
    LET task == tasks[t]
    IN  /\ task.pc = "rag"
        /\ Quiescent
        /\ \E qe \in WsQueryVectors :
               LET r == processUserQuery(vectorStore, newsArticles, qe, FALSE, FALSE)
               IN  /\ RagEffects(task.data.sessionId, task.data.message, r)
                   /\ tasks' = [tasks EXCEPT ![t].pc = "storeBot",
                                    ![t].response = [message |-> r.message,
                                                     sources |-> r.sources]]
        /\ UNCHANGED <<newsArticles, lastRag>>
        /\ UNCHANGED <<conns, sessions, searchVars, storeVars, admVars>>
    /\ UNCHANGED cacheVars
    /\ UNCHANGED <<embedVars, clientVars>>

\* Mutant: the answer goes out without the assistant message being stored.
StoreBotSkipped(t) ==
    /\ tasks[t].pc = "storeBot"
    /\ tasks' = [tasks EXCEPT ![t].pc = "botCache"]
    /\ UNCHANGED <<conns, sessions, searchVars, ragVars, storeVars, admVars>>
    /\ UNCHANGED cacheVars
    /\ UNCHANGED <<embedVars, clientVars>>

\* websocket.ts:160-165, routes.ts:119-124  the assistant message is inserted
StoreBot(t) ==
    LET task == tasks[t]
    IN  /\ task.pc = "storeBot"
        /\ createChatMessage(t, task.data.sessionId, task.response.message, FALSE,
                             task.response.sources)
        /\ tasks' = [tasks EXCEPT ![t].pc = "botCache",
                                  ![t].snapshot = Snapshot(task.data.sessionId)]
        /\ UNCHANGED <<chatSessions, chatSessionId>>
        /\ UNCHANGED <<conns, sessions, searchVars, ragVars, admVars>>
    /\ UNCHANGED cacheVars
    /\ UNCHANGED <<embedVars, clientVars>>

\* Mutant: the handler ends without sending the answer.
BotCacheSilent(t) ==
    /\ tasks[t].pc = "botCache"
    /\ memoryCache' = setSessionMessages(memoryCache, tasks[t].data.sessionId,
                                         tasks[t].snapshot)
    /\ tasks' = [tasks EXCEPT ![t].pc = "done"]
    /\ UNCHANGED <<newsArticles, genCalls, lastRag>>
    /\ UNCHANGED <<conns, sessions, searchVars, storeVars, admVars>>
    /\ UNCHANGED cacheVars
    /\ UNCHANGED <<embedVars, clientVars>>

\* storage.ts:182, websocket.ts:168-173, routes.ts:126-130  the cache is set
\* to the snapshot and the answer goes out
BotCache(t) ==
    LET task == tasks[t]
    IN  /\ task.pc = "botCache"
        /\ memoryCache' = setSessionMessages(memoryCache, task.data.sessionId, task.snapshot)
        /\ conns' = IF task.kind = "ws"
                    THEN Send(conns, task.conn,
                              Frame("bot", task.data.sessionId, task.response.message,
                                    task.response.sources, t))
                    ELSE conns
        /\ tasks' = [tasks EXCEPT ![t].pc = "done",
                         ![t].reply = IF task.kind = "post"
                                      THEN [status |-> 200,
                                            sessionId |-> task.data.sessionId,
                                            message |-> task.response.message,
                                            sources |-> task.response.sources]
                                      ELSE @]
        /\ UNCHANGED <<newsArticles, genCalls, lastRag>>
        /\ UNCHANGED <<sessions, searchVars, storeVars, admVars>>
    /\ UNCHANGED cacheVars
    /\ UNCHANGED <<embedVars, clientVars>>

(***************************************************************************)
(* SpecWs: the transport over an ingested index (routes.ts:55 awaits the   *)
(* ingestion before the chat routes are registered and the server is       *)
(* handed back to be listened on).                                         *)
(***************************************************************************)
InitIngested ==
    /\ vectorStore = << [id |-> 1, articleId |-> 1, chunkText |-> 1,
                         embedding |-> <<1, 0, 0>>] >>
    /\ lastSearch = None
    /\ newsArticles = << <<"title", 1>> >>
    /\ memoryCache = <<>>
    /\ genCalls = 0
    /\ lastRag = None

InitWsSpec ==
    /\ InitIngested /\ InitStore /\ InitWs /\ InitAdm /\ InitCache
    /\ InitFront

WsConnect ==
    /\ Quiescent
    /\ Len(conns) < MaxConns
    /\ \E ip \in {"a"} : Connect(ip)
    /\ UNCHANGED <<tasks, now>>
    /\ UNCHANGED <<searchVars, ragVars, storeVars>>
    /\ UNCHANGED cacheVars
    /\ UNCHANGED <<embedVars, clientVars>>

WsMessage == \E c \in DOMAIN conns : \E data \in WsPayloads(c) : WsReceive(c, data)

PostChat == \E body \in PostBodies : PostReceive(body)

WsHandoff   == \E t \in DOMAIN tasks : Handoff(t)
WsCreated   == \E t \in DOMAIN tasks : Created(t)
WsUserCache == \E t \in DOMAIN tasks : UserCache(t)
WsRag       == \E t \in DOMAIN tasks : Rag(t)
WsStoreBot  == \E t \in DOMAIN tasks : StoreBot(t)
WsBotCache  == \E t \in DOMAIN tasks : BotCache(t)

NextWs ==
    \/ WsConnect
    \/ WsMessage
    \/ PostChat
    \/ WsHandoff
    \/ WsCreated
    \/ WsUserCache
    \/ WsRag
    \/ WsStoreBot
    \/ WsBotCache

SpecWs == InitWsSpec /\ [][NextWs]_vars


(***************************************************************************)
(* Claims about the transport.                                             *)
(***************************************************************************)
ValidWs(t) ==
    /\ tasks[t].kind = "ws"
    /\ tasks[t].data.json
    /\ ~tasks[t].data.isNull
    /\ ~InvalidMessage(tasks[t].data)

UserMessagesOf(t) == {i \in DOMAIN chatMessages : chatMessages[i].task = t /\ chatMessages[i].isUser}

AssistantMessagesOf(t) ==
    {i \in DOMAIN chatMessages : chatMessages[i].task = t /\ ~chatMessages[i].isUser}

FramesOf(t, type) ==
    LET sent == conns[tasks[t].conn].sent
    IN  {i \in DOMAIN sent : sent[i].task = t /\ sent[i].type = type}

\* Whatever is in S2 has its counterpart in S1, earlier.
Precedes(S1, S2) == S2 # {} => S1 # {} /\ \A i \in S1, j \in S2 : i < j

\* C7: for two valid frames m1 then m2 on one connection, the stored user
\* message, the stored assistant message and the bot frame of m1 precede
\* the corresponding ones of m2.
C7_ArrivalOrder ==
    \A t1, t2 \in DOMAIN tasks :
        (t1 < t2 /\ ValidWs(t1) /\ ValidWs(t2) /\ tasks[t1].conn = tasks[t2].conn) =>
            /\ Precedes(UserMessagesOf(t1), UserMessagesOf(t2))
            /\ Precedes(AssistantMessagesOf(t1), AssistantMessagesOf(t2))
            /\ Precedes(FramesOf(t1, "bot"), FramesOf(t2, "bot"))

\* C8: the store holds at most one session record per sessionId.
C8_OneRecordPerSessionId ==
    \A i, j \in DOMAIN chatSessions :
        chatSessions[i].sessionId = chatSessions[j].sessionId => i = j

BadJsonWs(t) == tasks[t].kind = "ws" /\ ~tasks[t].data.json

\* C10: a frame that is not valid JSON gets exactly one error frame, stores
\* no chat message, creates no session record and never reaches the
\* orchestrator; the connection stays open, and a later valid frame on it
\* that has been handled has its bot frame.
C10_BadJsonOneErrorFrame ==
    \A t \in DOMAIN tasks :
        BadJsonWs(t) =>
            LET c == tasks[t].conn
                sent == conns[c].sent
            IN  /\ Cardinality({i \in DOMAIN sent : sent[i].task = t}) = 1
                /\ Cardinality(FramesOf(t, "error")) = 1
                /\ \A i \in DOMAIN chatMessages : chatMessages[i].task # t
                /\ \A i \in DOMAIN chatSessions : chatSessions[i].task # t
                /\ tasks[t].pc = "done"
                /\ tasks[t].response = NoResponse
                /\ conns[c].open
                /\ \A t2 \in DOMAIN tasks :
                       (t2 > t /\ ValidWs(t2) /\ tasks[t2].conn = c /\ tasks[t2].pc = "done") =>
                           /\ Cardinality(FramesOf(t2, "bot")) = 1
                           /\ \A i \in FramesOf(t2, "bot") :
                                  sent[i].message = tasks[t2].response.message

\* C10 witness: a frame that is not valid JSON was answered by its error
\* frame, and the valid frame that followed it on the connection has been
\* answered by a bot frame after that error frame.
C10_Witness ==
    \E t, t2 \in DOMAIN tasks :
        /\ BadJsonWs(t)
        /\ t2 > t
        /\ ValidWs(t2)
        /\ tasks[t2].conn = tasks[t].conn
        /\ tasks[t2].pc = "done"
        /\ \E i \in FramesOf(t, "error"), j \in FramesOf(t2, "bot") : i < j


(***************************************************************************)
(* SpecAdm: admission control alone.  Addresses connect while the clock    *)
(* advances in steps of half a window; a decay timer runs as soon as its   *)
(* time has come.                                                          *)
(***************************************************************************)
TickStep == RESET_TIME \div 2

AdmConnect ==
    /\ Quiescent
    /\ Len(conns) < MaxAdmConns
    /\ \E ip \in IPs : Connect(ip)
    /\ UNCHANGED <<tasks, now>>
    /\ UNCHANGED <<searchVars, ragVars, storeVars>>
    /\ UNCHANGED cacheVars
    /\ UNCHANGED <<embedVars, clientVars>>

Tick ==
    /\ ~TimerDue
    /\ now < MaxTicks * TickStep
    /\ now' = now + TickStep
    /\ UNCHANGED <<connectionAttempts, timers, lastAttempt, wsVars>>
    /\ UNCHANGED <<searchVars, ragVars, storeVars>>
    /\ UNCHANGED cacheVars
    /\ UNCHANGED <<embedVars, clientVars>>

NextAdm == AdmConnect \/ DecayTimer \/ Tick

SpecAdm == Init /\ [][NextAdm]_vars

\* The admitted attempts of the address of the last attempt that came
\* before it and less than a window before it.
InWindow ==
    {c \in DOMAIN conns :
        /\ c # lastAttempt.conn
        /\ conns[c].ip = lastAttempt.ip
        /\ lastAttempt.at - conns[c].at < RESET_TIME}

\* C9: an attempt from an address with more than the threshold of admitted
\* attempts in the last 60 seconds is refused with close code 1008, and an
\* attempt made when the window of every earlier attempt of the address has
\* elapsed is admitted.
C9_RefusedThenAdmitted ==
    lastAttempt.kind = "attempt" =>
        /\ Cardinality(InWindow) > MAX_ATTEMPTS =>
               lastAttempt.outcome = "refused" /\ lastAttempt.closeCode = 1008
        /\ InWindow = {} => lastAttempt.outcome = "admitted"

\* C9 witness: an address that was refused is admitted again once the
\* window of its earlier attempts has elapsed.
C9_Witness ==
    /\ lastAttempt.kind = "attempt"
    /\ lastAttempt.outcome = "admitted"
    /\ lastAttempt.refusedBefore
    /\ lastAttempt.at >= RESET_TIME
    /\ InWindow = {}
    /\ Cardinality({c \in DOMAIN conns : conns[c].ip = lastAttempt.ip}) > MAX_ATTEMPTS + 1


\* A frame that parsed but lacks a usable sessionId or message.
MissingField(t) ==
    /\ tasks[t].kind = "ws"
    /\ tasks[t].data.json
    /\ tasks[t].data.sessionId = <<>> \/ tasks[t].data.message = ""

\* C11: a frame whose sessionId or message is missing or empty gets an error
\* frame and nothing else: no chat message, no session record, no call of
\* the orchestrator, and the connection remains open.
C11_InvalidFrameOnlyError ==
    \A t \in DOMAIN tasks :
        MissingField(t) =>
            LET c == tasks[t].conn
                sent == conns[c].sent
            IN  /\ Cardinality({i \in DOMAIN sent : sent[i].task = t}) = 1
                /\ Cardinality(FramesOf(t, "error")) = 1
                /\ \A i \in DOMAIN chatMessages : chatMessages[i].task # t
                /\ \A i \in DOMAIN chatSessions : chatSessions[i].task # t
                /\ tasks[t].pc = "done"
                /\ tasks[t].response = NoResponse
                /\ conns[c].open

\* C11 witness: a frame that carries a session id and an empty message has
\* been answered by its error frame.
C11_Witness ==
    \E t \in DOMAIN tasks :
        /\ MissingField(t)
        /\ tasks[t].data.sessionId # <<>>
        /\ tasks[t].data.message = ""
        /\ FramesOf(t, "error") # {}

Invoked(t) == tasks[t].pc \in {"rag", "storeBot", "botCache", "done"}

Returned(t) == tasks[t].response # NoResponse

\* C12: for every valid frame the handler stores the user message, sends
\* the typing frame, invokes the orchestrator, stores the assistant message
\* and sends the bot frame with the orchestrator's message and sources, in
\* this order; no bot frame precedes the storing of its assistant message.
C12_HandlerOrder ==
    \A t \in DOMAIN tasks :
        ValidWs(t) =>
            LET sent == conns[tasks[t].conn].sent
                u  == UserMessagesOf(t)
                a  == AssistantMessagesOf(t)
                ty == FramesOf(t, "typing")
                b  == FramesOf(t, "bot")
            IN  /\ Cardinality(u) <= 1 /\ Cardinality(a) <= 1
                /\ Cardinality(ty) <= 1 /\ Cardinality(b) <= 1
                /\ ty # {} => u # {}
                /\ Invoked(t) => ty # {}
                /\ Returned(t) => Invoked(t)
                /\ a # {} => Returned(t)
                /\ \A i \in a :
                       /\ chatMessages[i].content = tasks[t].response.message
                       /\ chatMessages[i].sources = tasks[t].response.sources
                       /\ \A j \in u : j < i
                /\ b # {} => a # {}
                /\ \A i \in b :
                       /\ sent[i].message = tasks[t].response.message
                       /\ sent[i].sources = tasks[t].response.sources
                       /\ sent[i].sessionId = tasks[t].data.sessionId
                       /\ \A j \in ty : j < i
                /\ tasks[t].pc = "done" => b # {}

\* C12 witness: a valid frame has been handled to the end, with a generated
\* answer that cites a source.
C12_Witness ==
    \E t \in DOMAIN tasks :
        /\ ValidWs(t)
        /\ tasks[t].pc = "done"
        /\ tasks[t].response.message = Generated
        /\ tasks[t].response.sources # <<>>
        /\ FramesOf(t, "bot") # {}
        /\ AssistantMessagesOf(t) # {}

\* C13: on every admitted connection the first two frames are the
\* connection frame with the freshly assigned session id and then the
\* welcome bot frame, and the connection was in the registry under that id
\* when they were sent.
C13_AckThenWelcome ==
    \A c \in DOMAIN conns :
        LET sent == conns[c].sent
            sid  == conns[c].sessionId
        IN  /\ Len(sent) >= 2
            /\ sent[1].type = "connection" /\ sent[1].sessionId = sid
            /\ sent[2].type = "bot" /\ sent[2].sessionId = sid /\ sent[2].task = 0
            /\ conns[c].registered
            /\ \A c2 \in DOMAIN conns : c2 # c => conns[c2].sessionId # sid
            /\ conns[c].open => sid \in DOMAIN sessions /\ sessions[sid] = c

\* C13 witness: a connection was admitted and has since been sent further
\* frames.
C13_Witness ==
    \E c \in DOMAIN conns :
        /\ Len(conns[c].sent) > 2
        /\ conns[c].sent[1].type = "connection"
        /\ conns[c].sessionId \in DOMAIN sessions

\* C17: whenever a chat message of session s is stored, a session record for
\* s exists, also when s is the id the server assigned to the connection.
C17_MessageImpliesRecord ==
    \A i \in DOMAIN chatMessages :
        getChatSessionBySessionId(chatMessages[i].sessionId)


(***************************************************************************)
(* Connection life cycle: heartbeat, close, sendToSession.                 *)
(***************************************************************************)
\* A heartbeat whose time has come runs before the next event.
PingDue == \E c \in DOMAIN conns : conns[c].pingInterval /\ conns[c].nextPing <= now

\* websocket.ts:99-103  the setInterval callback: a ping, if the socket is open
Heartbeat(c) ==
    /\ conns[c].pingInterval
    /\ conns[c].nextPing <= now
    /\ conns' = [conns EXCEPT ![c].pings = IF conns[c].open THEN @ + 1 ELSE @,
                              ![c].nextPing = @ + PING_INTERVAL]
    /\ UNCHANGED <<sessions, tasks, admVars>>
    /\ UNCHANGED <<searchVars, ragVars, storeVars>>
    /\ UNCHANGED cacheVars
    /\ UNCHANGED <<embedVars, clientVars>>

\* Mutant: the closed connection stays in the registry.
UnregisterSkipped(registry, sessionId) == registry

\* websocket.ts:189  sessions.delete(sessionId)
Unregister(registry, sessionId) ==
    [k \in DOMAIN registry \ {sessionId} |-> registry[k]]

\* websocket.ts:187-195  ws.on('close'): the socket is closed by now
WsClose(c) ==
    /\ conns[c].open
    /\ sessions' = Unregister(sessions, conns[c].sessionId)
    /\ conns' = [conns EXCEPT ![c].open = FALSE,
                              ![c].closedAt = now,
                              ![c].pingInterval = FALSE]      \* clearInterval
    /\ UNCHANGED <<tasks, admVars>>
    /\ UNCHANGED <<searchVars, ragVars, storeVars>>
    /\ UNCHANGED cacheVars
    /\ UNCHANGED <<embedVars, clientVars>>

\* The connection that was assigned this id (of the claims, not of the code).
ConnOf(sessionId) == {c \in DOMAIN conns : conns[c].sessionId = sessionId}

\* websocket.ts:205-210  sendToSession
sendToSession(sessionId, message) ==
    /\ IF sessionId \in DOMAIN sessions /\ conns[sessions[sessionId]].open
       THEN conns' = Send(conns, sessions[sessionId],
                          Frame("push", sessionId, message, <<>>, 0))
       ELSE conns' = [c \in DOMAIN conns |->
                         IF c \in ConnOf(sessionId)
                         THEN [conns[c] EXCEPT !.unsentPushes = @ + 1]
                         ELSE conns[c]]
    /\ UNCHANGED <<sessions, tasks, admVars>>
    /\ UNCHANGED <<searchVars, ragVars, storeVars>>
    /\ UNCHANGED cacheVars
    /\ UNCHANGED <<embedVars, clientVars>>

Pushes(c) ==
    Cardinality({i \in DOMAIN conns[c].sent : conns[c].sent[i].type = "push"})
        + conns[c].unsentPushes

(***************************************************************************)
(* SpecLife: connections are admitted, pinged, pushed to and closed while  *)
(* the clock advances.                                                     *)
(***************************************************************************)
LifeConnect ==
    /\ Quiescent
    /\ ~PingDue
    /\ Len(conns) < MaxLifeConns
    /\ \E ip \in {"a"} : Connect(ip)
    /\ UNCHANGED <<tasks, now>>
    /\ UNCHANGED <<searchVars, ragVars, storeVars>>
    /\ UNCHANGED cacheVars
    /\ UNCHANGED <<embedVars, clientVars>>

LifeHeartbeat == \E c \in DOMAIN conns : Heartbeat(c)

LifeClose == \E c \in DOMAIN conns : ~TimerDue /\ ~PingDue /\ WsClose(c)

LifePush ==
    \E c \in DOMAIN conns :
        /\ ~TimerDue
        /\ ~PingDue
        /\ Pushes(c) < MaxPushes
        /\ sendToSession(conns[c].sessionId, "pushed")

LifeTick ==
    /\ ~PingDue
    /\ Tick

NextLife == LifeConnect \/ LifeHeartbeat \/ LifeClose \/ LifePush \/ LifeTick \/ DecayTimer

SpecLife == Init /\ [][NextLife]_vars

ClosedClean ==
    \A c \in DOMAIN conns :
        ~conns[c].open =>
            /\ conns[c].sessionId \notin DOMAIN sessions
            /\ ~conns[c].pingInterval

ClosedSilent ==
    \A c \in DOMAIN conns :
        ~conns[c].open =>
            /\ conns'[c].pings = conns[c].pings
            /\ conns'[c].sent = conns[c].sent

\* C14: a closed connection is out of the registry and its heartbeat timer
\* is cancelled; from the close on, no ping and no frame is sent on it, also
\* not by sendToSession for its id.
C14_CloseDeregisters == []ClosedClean /\ [][ClosedSilent]_vars

\* C14 witness: a connection that had been pinged was closed, a heartbeat
\* period has passed since, and a sendToSession for its id sent nothing.
C14_Witness ==
    \E c \in DOMAIN conns :
        /\ ~conns[c].open
        /\ conns[c].pings >= 1
        /\ now >= conns[c].closedAt + PING_INTERVAL
        /\ conns[c].unsentPushes >= 1


(***************************************************************************)
(* The two cache tiers (redis.ts).  A value goes to either tier as JSON    *)
(* text; the in-process tier keeps the parsed value, Redis keeps the text. *)
(***************************************************************************)
MaxCacheOps == 3
MaxCacheMsgs == 2

\* JSON.stringify / JSON.parse of a turn {query, response, sources}
StringifyTurn(turn) ==
    <<"{", turn.query, turn.response, turn.sources, turn.timestamp, "}">>
ParseTurn(text) ==
    [query |-> text[2], response |-> text[3], sources |-> text[4],
     timestamp |-> text[5]]

\* JSON.stringify / JSON.parse of a list of already parsed values
StringifyList(list) == <<"[", list, "]">>
ParseList(text) == text[2]

NullText == <<"null">>

\* redis.ts:21-23  MemoryRedis.get
MemGet(cache, key) ==
    IF key \in DOMAIN cache THEN StringifyList(cache[key]) ELSE NullText

\* redis.ts:25-28  MemoryRedis.set
MemSet(cache, key, text) == (key :> ParseList(text)) @@ cache

\* redis.ts:46-48  MemoryRedis.del
MemDel(cache, key) == [k \in DOMAIN cache \ {key} |-> cache[k]]

\* The commands of the Redis server.
RedisGet(data, key) == IF key \in DOMAIN data THEN data[key] ELSE NullText
RedisSet(data, key, text) == (key :> text) @@ data
RedisDel(data, key) == [k \in DOMAIN data \ {key} |-> data[k]]
RedisLPush(data, key, text) ==
    (key :> (<<text>> \o (IF key \in DOMAIN data THEN data[key] ELSE <<>>))) @@ data

\* redis.ts:66 enableOfflineQueue: false -- a command sent while the
\* connection is not ready is rejected
CommandFails == redisClient = "redis" /\ redisStatus # "ready"

\* One call of a cache function, for the claims: the tier that served it,
\* whether a command of it was rejected, and whether the cache had failed
\* before it.
Logged(log, op, failed) ==
    [log EXCEPT !.ops = @ + 1,
                !.degraded = @ \/ failed,
                !.last = [op |-> op, tier |-> redisClient, failed |-> failed,
                          degradedBefore |-> log.degraded, commands |-> <<>>]]

\* redis.ts:8  one hour, in seconds
CHAT_HISTORY_TTL == 3600

\* redis.ts:40-44  MemoryRedis.expire: nothing is scheduled, the expiry of
\* the key is what it was
MemExpire(ttl, key, seconds) == ttl

\* EXPIRE of the Redis server: the key, if there is one, expires after the
\* seconds given
RedisExpire(ttl, key, seconds) == (key :> seconds) @@ ttl

\* Deleting a key drops its expiry.
Unexpire(ttl, key) == [k \in DOMAIN ttl \ {key} |-> ttl[k]]

\* A command as the active tier was sent it, and whether it was rejected.
Command(name, key, arg, rejected) ==
    [cmd |-> name, key |-> key, arg |-> arg, rejected |-> rejected]

\* redis.ts:103-104, 136-137  the write to the key, then its expire; the
\* expire is not reached when the write is rejected
WriteThenExpire(log, name, key, writeFails, expireFails) ==
    [log EXCEPT
        !.last.commands =
            IF writeFails THEN << Command(name, key, "value", TRUE) >>
            ELSE << Command(name, key, "value", FALSE),
                    Command("expire", key, CHAT_HISTORY_TTL, expireFails) >>,
        !.ttl = IF writeFails \/ expireFails THEN @
                ELSE IF redisClient = "memory"
                     THEN MemExpire(@, key, CHAT_HISTORY_TTL)
                     ELSE RedisExpire(@, key, CHAT_HISTORY_TTL)]

PushedTo(log, key) == IF key \in DOMAIN log.pushed THEN log.pushed[key] ELSE <<>>

\* redis.ts:97-108  addChatToHistory on the active tier.  pushFails,
\* expireFails: the command is rejected.
addChatToHistoryTier(sessionId, turn, pushFails, expireFails) ==
    LET key == HistoryKey(sessionId)
    IN  IF redisClient = "memory"
        THEN /\ memoryCache' = MemLPush(memoryCache, key, ParseTurn(StringifyTurn(turn)))
             /\ cacheLog' = [WriteThenExpire(Logged(cacheLog, "push", FALSE),
                                              "lpush", key, FALSE, FALSE) EXCEPT
                                !.pushed = (key :> Append(PushedTo(cacheLog, key), turn)) @@ @]
             /\ UNCHANGED redisData
        ELSE /\ redisData' = IF pushFails THEN redisData
                             ELSE RedisLPush(redisData, key, StringifyTurn(turn))
             /\ cacheLog' = WriteThenExpire(Logged(cacheLog, "push", pushFails \/ expireFails),
                                             "lpush", key, pushFails, expireFails)
             /\ UNCHANGED memoryCache

\* redis.ts:133-141  setSessionMessages on the active tier
setSessionMessagesTier(sessionId, messages) ==
    LET key == MessagesKey(sessionId)
    IN  IF redisClient = "memory"
        THEN /\ memoryCache' = MemSet(memoryCache, key, StringifyList(messages))
             /\ cacheLog' = WriteThenExpire(Logged(cacheLog, "set", FALSE),
                                             "set", key, FALSE, FALSE)
             /\ UNCHANGED redisData
        ELSE /\ redisData' = IF CommandFails THEN redisData
                             ELSE RedisSet(redisData, key, StringifyList(messages))
             /\ cacheLog' = WriteThenExpire(Logged(cacheLog, "set", CommandFails),
                                             "set", key, CommandFails, FALSE)
             /\ UNCHANGED memoryCache

NotCached == [found |-> FALSE, messages |-> <<>>]

\* redis.ts:116-126  getSessionMessages: the cached list, or null
getSessionMessagesTier(sessionId) ==
    LET key  == MessagesKey(sessionId)
        text == IF redisClient = "memory" THEN MemGet(memoryCache, key)
                ELSE RedisGet(redisData, key)
    IN  IF CommandFails \/ text = NullText
        THEN NotCached
        ELSE [found |-> TRUE, messages |-> ParseList(text)]

\* redis.ts:148-160  deleteSessionMessages on the active tier: the second
\* key is not reached when the first del is rejected
deleteSessionMessagesTier(sessionId) ==
    IF redisClient = "memory"
    THEN /\ memoryCache' = MemDel(MemDel(memoryCache, MessagesKey(sessionId)),
                                  HistoryKey(sessionId))
         /\ cacheLog' = [Logged(cacheLog, "delete", FALSE) EXCEPT
                            !.pushed = MemDel(@, HistoryKey(sessionId)),
                            !.ttl = Unexpire(Unexpire(@, MessagesKey(sessionId)),
                                             HistoryKey(sessionId))]
         /\ UNCHANGED redisData
    ELSE /\ redisData' = IF CommandFails THEN redisData
                         ELSE RedisDel(RedisDel(redisData, MessagesKey(sessionId)),
                                       HistoryKey(sessionId))
         /\ cacheLog' = [Logged(cacheLog, "delete", CommandFails) EXCEPT
                            !.ttl = IF CommandFails THEN @
                                    ELSE Unexpire(Unexpire(@, MessagesKey(sessionId)),
                                                  HistoryKey(sessionId))]
         /\ UNCHANGED memoryCache

\* Mutant: the failure of the cache is passed on to the caller.
HistoryCatchRethrow(failed) == failed

\* redis.ts:105-107  catch (error) { console.error(...) }
HistoryCatch(failed) == FALSE

\* rag.ts:18-84 over a cache whose write of the turn is rejected
\* (cacheFails): addChatToHistory catches it
processUserQueryTier(store, articles, qe, lookupFails, genFails, cacheFails) ==
    LET r == processUserQuery(store, articles, qe, lookupFails, genFails)
    IN  IF r.persisted /\ HistoryCatch(cacheFails)
        THEN RagCatch([r EXCEPT !.raised = TRUE])
        ELSE r

(***************************************************************************)
(* The Redis client (redis.ts:58-85): connect() is called once; its `then` *)
(* selects Redis, its `catch` and every 'error' event select the           *)
(* in-process tier.  A connection that closes without an error is          *)
(* re-established by the client behind the scenes.                         *)
(***************************************************************************)
FellBack(log) == [log EXCEPT !.fellBack = TRUE, !.degraded = TRUE]

\* redis.ts:76-78  client.connect().then(...)
RedisConnected ==
    /\ redisStatus = "connecting"
    /\ redisStatus' = "ready"
    /\ redisClient' = "redis"
    /\ UNCHANGED <<redisData, cacheLog, lastHttp>>
    /\ UNCHANGED <<searchVars, ragVars, storeVars, wsVars, admVars>>
    /\ UNCHANGED <<embedVars, clientVars>>

\* redis.ts:70-73, 79-82  the connection attempt fails: 'error', then catch
RedisConnectFailed ==
    /\ redisStatus = "connecting"
    /\ redisStatus' = "down"
    /\ redisClient' = "memory"
    /\ cacheLog' = FellBack(cacheLog)
    /\ UNCHANGED <<redisData, lastHttp>>
    /\ UNCHANGED <<searchVars, ragVars, storeVars, wsVars, admVars>>
    /\ UNCHANGED <<embedVars, clientVars>>

\* redis.ts:70-73  client.on('error'): the connection breaks with an error
RedisErrorEvent ==
    /\ redisStatus = "ready"
    /\ redisStatus' = "down"
    /\ redisClient' = "memory"
    /\ cacheLog' = FellBack(cacheLog)
    /\ UNCHANGED <<redisData, lastHttp>>
    /\ UNCHANGED <<searchVars, ragVars, storeVars, wsVars, admVars>>
    /\ UNCHANGED <<embedVars, clientVars>>

\* The connection is closed by the peer without an error: no handler runs.
RedisClosed ==
    /\ redisStatus = "ready"
    /\ redisStatus' = "down"
    /\ UNCHANGED <<redisClient, redisData, cacheLog, lastHttp>>
    /\ UNCHANGED <<searchVars, ragVars, storeVars, wsVars, admVars>>
    /\ UNCHANGED <<embedVars, clientVars>>

\* The client has reconnected: no handler runs.
RedisReconnected ==
    /\ redisStatus = "down"
    /\ redisStatus' = "ready"
    /\ UNCHANGED <<redisClient, redisData, cacheLog, lastHttp>>
    /\ UNCHANGED <<searchVars, ragVars, storeVars, wsVars, admVars>>
    /\ UNCHANGED <<embedVars, clientVars>>


(***************************************************************************)
(* SpecCache: the cache functions, the chat store and the chat history     *)
(* routes, called one after the other while the Redis connection comes and *)
(* goes.  Redis is configured (or not) when the process starts.            *)
(***************************************************************************)
InitCacheSpec ==
    /\ InitIngested /\ InitStore /\ InitWs /\ InitAdm /\ InitFront
    /\ redisClient = "memory"
    /\ redisStatus \in {"unconfigured", "connecting"}
    /\ redisData = <<>>
    /\ cacheLog = NoCacheLog
    /\ lastHttp = None

\* The outcomes a command of the active tier can have: rejected or not.
Rejections ==
    IF redisClient = "memory" THEN {FALSE}
    ELSE IF CommandFails THEN {TRUE} ELSE BOOLEAN

\* rag.ts:18-84  one query, answered from the index, its turn persisted
CacheTurn ==
    \E sid \in WsSessionIds, query \in {"q1", "q2"}, pushFails \in Rejections :
    \E expireFails \in IF pushFails THEN {FALSE} ELSE Rejections :
        LET r == processUserQueryTier(vectorStore, newsArticles, <<1, 0, 0>>,
                                      FALSE, FALSE, pushFails \/ expireFails)
        IN  /\ cacheLog.ops < MaxCacheOps
            /\ genCalls' = genCalls + 1
            /\ addChatToHistoryTier(sid, Turn(query, r), pushFails, expireFails)
            /\ lastRag' = [call |-> [sessionId |-> sid, query |-> query,
                                     tier |-> redisClient,
                                     turn |-> Turn(query, r),
                                     pushFails |-> pushFails,
                                     expireFails |-> expireFails],
                           search |-> searchVectorStore(vectorStore, <<1, 0, 0>>, RagTopK)]
                          @@ r
            /\ UNCHANGED <<newsArticles, redisClient, redisStatus, lastHttp>>
            /\ UNCHANGED <<searchVars, storeVars, wsVars, admVars>>
    /\ UNCHANGED <<embedVars, clientVars>>

\* storage.ts:171-185  createChatMessage: the insert, then the cache is set
\* to the messages of the session
CacheStore ==
    \E sid \in WsSessionIds, isUser \in BOOLEAN :
        /\ cacheLog.ops < MaxCacheOps
        /\ Len(chatMessages) < MaxCacheMsgs
        /\ createChatMessage(0, sid, "hello", isUser, <<>>)
        /\ setSessionMessagesTier(sid, Snapshot(sid))
        /\ UNCHANGED <<chatSessions, chatSessionId>>
        /\ UNCHANGED <<newsArticles, genCalls, lastRag, redisClient, redisStatus, lastHttp>>
        /\ UNCHANGED <<searchVars, wsVars, admVars>>
    /\ UNCHANGED <<embedVars, clientVars>>

\* routes.ts:101-107  the session record is created if there is none
CacheEnsureSession ==
    \E sid \in WsSessionIds :
        /\ ~getChatSessionBySessionId(sid)
        /\ createChatSession(0, sid)
        /\ UNCHANGED <<chatMessages, chatMessageId>>
        /\ UNCHANGED <<searchVars, ragVars, wsVars, admVars, cacheVars>>
    /\ UNCHANGED <<embedVars, clientVars>>

\* storage.ts:186-199  deleteChatMessagesBySessionId
deleteChatMessagesBySessionId(messages, sessionId) ==
    SelectSeq(messages, LAMBDA m : m.sessionId # sessionId)

\* routes.ts:165-183  DELETE /api/chat/:sessionId
DeleteChat ==
    \E sid \in WsSessionIds :
        /\ cacheLog.ops < MaxCacheOps
        /\ deleteSessionMessagesTier(sid)
        /\ chatMessages' = deleteChatMessagesBySessionId(chatMessages, sid)
        /\ lastHttp' = [kind |-> "delete", sessionId |-> sid, status |-> 200,
                        success |-> TRUE, messages |-> <<>>,
                        \* the one before was the same request, with no
                        \* other call in between
                        repeat |-> /\ lastHttp.kind = "delete"
                                   /\ lastHttp.sessionId = sid
                                   /\ cacheLog.last.op = "delete",
                        nextSessionId |-> chatSessionId,
                        nextMessageId |-> chatMessageId]
        /\ UNCHANGED <<chatSessions, chatSessionId, chatMessageId>>
        /\ UNCHANGED <<newsArticles, genCalls, lastRag, redisClient, redisStatus>>
        /\ UNCHANGED <<searchVars, wsVars, admVars>>
    /\ UNCHANGED <<embedVars, clientVars>>

\* Mutant: the answer is what the cache returned, whatever it was.
GetChatMessagesCacheOnly(sessionId) == getSessionMessagesTier(sessionId).messages

\* routes.ts:138-163  the messages GET /api/chat/:sessionId answers with
GetChatMessages(sessionId) ==
    LET cached == getSessionMessagesTier(sessionId)
    IN  IF cached.found /\ Len(cached.messages) > 0
        THEN cached.messages
        ELSE getChatMessagesBySessionId(chatMessages, sessionId)

\* routes.ts:138-163  GET /api/chat/:sessionId
GetChat ==
    \E sid \in WsSessionIds :
        /\ cacheLog.ops < MaxCacheOps
        /\ cacheLog' = Logged(cacheLog, "get", CommandFails)
        /\ lastHttp' = [kind |-> "get", sessionId |-> sid, status |-> 200,
                        success |-> TRUE, messages |-> GetChatMessages(sid),
                        repeat |-> FALSE,
                        nextSessionId |-> chatSessionId,
                        nextMessageId |-> chatMessageId]
        /\ UNCHANGED <<memoryCache, redisData, redisClient, redisStatus>>
        /\ UNCHANGED <<newsArticles, genCalls, lastRag>>
        /\ UNCHANGED <<searchVars, storeVars, wsVars, admVars>>
    /\ UNCHANGED <<embedVars, clientVars>>

NextCache ==
    \/ RedisConnected
    \/ RedisConnectFailed
    \/ RedisErrorEvent
    \/ RedisClosed
    \/ RedisReconnected
    \/ CacheTurn
    \/ CacheStore
    \/ CacheEnsureSession
    \/ DeleteChat
    \/ GetChat

SpecCache == InitCacheSpec /\ [][NextCache]_vars

\* Whether the active tier holds the key.
CacheHolds(key) ==
    IF redisClient = "memory" THEN key \in DOMAIN memoryCache
    ELSE key \in DOMAIN redisData

\* The state is the one the last DELETE left: no cache function and no
\* insert into the chat store has run since.
JustCleared ==
    /\ lastHttp.kind = "delete"
    /\ cacheLog.last.op = "delete"
    /\ lastHttp.nextSessionId = chatSessionId
    /\ lastHttp.nextMessageId = chatMessageId

\* C15: DELETE /chat/{sessionId} answers success:true each time, and after
\* two of them in sequence the cache holds neither key of the session, the
\* chat store holds no message of it and GET /chat/{sessionId} answers with
\* the empty list.
C15_ClearIdempotent ==
    JustCleared =>
        /\ lastHttp.success
        /\ lastHttp.repeat =>
               /\ ~CacheHolds(HistoryKey(lastHttp.sessionId))
               /\ ~CacheHolds(MessagesKey(lastHttp.sessionId))
               /\ getChatMessagesBySessionId(chatMessages, lastHttp.sessionId) = <<>>
               /\ GetChatMessages(lastHttp.sessionId) = <<>>

\* C16: when DELETE /chat/{sessionId} has completed, no session record with
\* that sessionId is found.
C16_ClearDeletesRecord ==
    JustCleared => ~getChatSessionBySessionId(lastHttp.sessionId)

\* C18: once the cache has failed (Redis unavailable at startup, an 'error'
\* event, or a rejected command of a cache function), every later cache
\* function is served by the in-process tier.
C18_FallbackSticky ==
    (cacheLog.last.op # "none" /\ cacheLog.last.degradedBefore) =>
        cacheLog.last.tier = "memory"

CacheTurnDone == lastRag.kind # "none"

\* C19: when the push or the expire of addChatToHistory is rejected,
\* processUserQuery still returns the generated message and the resolved
\* sources, not the error response.
C19_CacheFailureNotSurfaced ==
    (CacheTurnDone /\ (lastRag.call.pushFails \/ lastRag.call.expireFails)) =>
        /\ lastRag.kind = "return"
        /\ ~lastRag.raised
        /\ lastRag.message = Generated
        /\ lastRag.message # ErrorMsg
        /\ lastRag.sources = TitlesOf(newsArticles, DistinctIds(lastRag.search.docs))
        /\ lastRag.sources # <<>>

\* C19 witness: a turn whose expire was rejected by Redis after its push
\* went through has been answered with the generated message.
C19_Witness ==
    /\ CacheTurnDone
    /\ lastRag.call.tier = "redis"
    /\ lastRag.call.expireFails
    /\ cacheLog.last.failed
    /\ lastRag.message = Generated

RECURSIVE Reverse(_)
Reverse(seq) == IF seq = <<>> THEN <<>> ELSE Append(Reverse(Tail(seq)), Head(seq))

\* C20: after turns t1..tn were pushed to a key of the in-process tier, with
\* no delete in between, get on the key returns [tn, ..., t1], each turn
\* equal to the value pushed.
C20_PushGetRoundTrip ==
    \A key \in DOMAIN cacheLog.pushed :
        cacheLog.pushed[key] # <<>> =>
            ParseList(MemGet(memoryCache, key)) = Reverse(cacheLog.pushed[key])

\* C20 witness: two different turns were pushed to one key.
C20_Witness ==
    \E key \in DOMAIN cacheLog.pushed :
        /\ Len(cacheLog.pushed[key]) >= 2
        /\ cacheLog.pushed[key][1] # cacheLog.pushed[key][2]
        /\ key \in DOMAIN memoryCache


\* The newest turn of the history list of the session, on the tier given.
HistoryHead(tier, sessionId) ==
    LET key == HistoryKey(sessionId)
    IN  IF tier = "memory"
        THEN IF key \in DOMAIN memoryCache THEN << memoryCache[key][1] >> ELSE <<>>
        ELSE IF key \in DOMAIN redisData THEN << ParseTurn(redisData[key][1]) >> ELSE <<>>

\* The last cache function wrote the key and then set its expiry to one
\* hour, and the key expires after one hour.
Refreshed(name, key) ==
    /\ cacheLog.last.commands = << Command(name, key, "value", FALSE),
                                   Command("expire", key, CHAT_HISTORY_TTL, FALSE) >>
    /\ key \in DOMAIN cacheLog.ttl
    /\ cacheLog.ttl[key] = CHAT_HISTORY_TTL

\* C21: after a query that retrieved at least one chunk, the turn is the
\* head of the chat:<sessionId> list and the key expires one hour after the
\* write; every push to chat:<sessionId> and every set of
\* chat_messages:<sessionId> is followed by expire(key, 3600) on that key.
C21_TurnPersistedTtlRefreshed ==
    /\ (cacheLog.last.op = "push" /\ CacheTurnDone /\ lastRag.search.docs # <<>>) =>
           /\ HistoryHead(cacheLog.last.tier, lastRag.call.sessionId)
                  = << lastRag.call.turn >>
           /\ Refreshed("lpush", HistoryKey(lastRag.call.sessionId))
    /\ cacheLog.last.op = "set" =>
           \E sid \in WsSessionIds : Refreshed("set", MessagesKey(sid))


\* The article ids of the retrieved chunks that resolve to an article.
ResolvedIds(docs) ==
    { docs[i].articleId : i \in 1..Len(docs) } \cap DOMAIN newsArticles

\* Where the article id first appears in the search result.
FirstAt(docs, id) ==
    CHOOSE i \in 1..Len(docs) :
        /\ docs[i].articleId = id
        /\ \A j \in 1..(i - 1) : docs[j].articleId # id

\* C22: the sources returned by processUserQuery are the titles of the
\* distinct article ids of the retrieved chunks that resolve to an article,
\* one per id, in the order of the ids' first appearance in the search
\* result; an id that resolves to no article is dropped and the request
\* does not fail.
C22_SourcesDistinctResolvedInOrder ==
    (RagDone /\ lastRag.search.docs # <<>> /\ ~lastRag.call.lookupFails) =>
        LET docs == lastRag.search.docs
            ids  == ResolvedIds(docs)
        IN  /\ lastRag.kind = "return"
            /\ ~lastRag.raised
            /\ lastRag.message # ErrorMsg
            /\ Len(lastRag.sources) = Cardinality(ids)
            /\ \A n \in 1..Len(lastRag.sources) :
                   \E id \in ids :
                       /\ lastRag.sources[n] = newsArticles[id]
                       /\ Cardinality({ other \in ids :
                              FirstAt(docs, other) < FirstAt(docs, id) }) = n - 1

\* C22 witness: of two retrieved chunks one belongs to an article that is
\* not found; the title of the other is the only source.
C22_Witness ==
    /\ RagDone
    /\ Len(lastRag.search.docs) = 2
    /\ \E i \in 1..2 : lastRag.search.docs[i].articleId \notin DOMAIN newsArticles
    /\ Len(lastRag.sources) = 1
    /\ lastRag.kind = "return"


\* C23: when generation fails, generateGeminiResponse returns the apology
\* and processUserQuery goes on: it returns the apology with the resolved
\* sources and persists the turn.
C23_GenerationFailureDegrades ==
    (RagDone /\ lastRag.call.genFails) =>
        /\ lastRag.kind = "return"
        /\ ~lastRag.raised
        /\ lastRag.genCalled
        /\ lastRag.message = ApologyMsg
        /\ lastRag.sources = TitlesOf(newsArticles, DistinctIds(lastRag.search.docs))
        /\ Len(lastRag.sources) = Cardinality(ResolvedIds(lastRag.search.docs))
        /\ lastRag.persisted
        /\ HistoryKey(lastRag.call.sessionId) \in DOMAIN memoryCache
        /\ memoryCache[HistoryKey(lastRag.call.sessionId)][1] =
               [query |-> "q", response |-> ApologyMsg,
                sources |-> lastRag.sources, timestamp |-> <<"iso", now>>]

\* C23 witness: generation failed for a query with a resolved source, and
\* the apology was returned with that source.
C23_Witness ==
    /\ RagDone
    /\ lastRag.call.genFails
    /\ lastRag.message = ApologyMsg
    /\ lastRag.sources # <<>>
    /\ memoryCache # <<>>


(***************************************************************************)
(* Embedding gateway (embedding.ts).  A text is a sequence of characters;  *)
(* a component freq / text.length of the fallback vector is kept as the    *)
(* reduced fraction <<numerator, denominator>>, the value the division     *)
(* yields.                                                                 *)
(***************************************************************************)
MaxEmbedCalls == 3

\* embedding.ts:73  new Array(128)
FallbackDim == 128

\* The characters of the texts, with String.toLowerCase and charCodeAt(0).
Chars == {"a", "A", "b", "e_acute"}
ToLowerCase(char) == IF char = "A" THEN "a" ELSE char
CharCodeAt(char) ==
    CASE char = "a" -> 97
      [] char = "A" -> 65
      [] char = "b" -> 98
      [] OTHER      -> 233

Texts == { <<>>, <<"a">>, <<"A", "b", "a">>, <<"a", "e_acute">> }

RECURSIVE GCD(_, _)
GCD(a, b) == IF b = 0 THEN a ELSE GCD(b, a % b)

\* freq / text.length
Ratio(n, d) == << n \div GCD(n, d), d \div GCD(n, d) >>

\* Mutant: the map of the previous call is used again.
NewCharFreqKept == embed.charFreq

\* embedding.ts:66  new Map<string, number>()
NewCharFreq == <<>>

\* embedding.ts:67-69  charFreq.set(char, (charFreq.get(char) || 0) + 1)
RECURSIVE CountChars(_, _)
CountChars(text, charFreq) ==
    IF text = <<>> THEN charFreq
    ELSE LET char == ToLowerCase(Head(text))
             seen == IF char \in DOMAIN charFreq THEN charFreq[char] ELSE 0
         IN  CountChars(Tail(text), (char :> seen + 1) @@ charFreq)

\* embedding.ts:64-69  the character frequencies of the text
CharFreqOf(text) == CountChars(text, NewCharFreq)

\* embedding.ts:72-79  the vector: dimension code + 1 holds the frequency
\* of the character with that code, the others hold 0
FallbackVector(text, charFreq) ==
    [ i \in 1..FallbackDim |->
        IF \E char \in DOMAIN charFreq : CharCodeAt(char) = i - 1
        THEN LET char == CHOOSE c \in DOMAIN charFreq : CharCodeAt(c) = i - 1
             IN  Ratio(charFreq[char], Len(text))
        ELSE Ratio(0, 1) ]

\* embedding.ts:64-81
generateFallbackEmbedding(text) == FallbackVector(text, CharFreqOf(text))

\* What the provider does with a request: it answers with an embedding, no
\* API key is set (lines 17-20), the request fails (lines 25-37), or the
\* answer holds no embedding (lines 39-41).
ProviderOutcomes == {"ok", "noKey", "httpError", "invalidResponse"}

\* The embedding of the provider.
ProviderVector == <<1, 0, 0>>

NodeEnvs == {"development", "production", "test", "unset"}

\* Mutant: the fallback is used in every mode.
IsDevelopmentAlways(env) == TRUE

\* embedding.ts:47  process.env.NODE_ENV === 'development'
IsDevelopment(env) == env = "development"

\* embedding.ts:9-55
generateEmbedding(text, env, outcome) ==
    IF outcome = "ok"
    THEN [origin |-> "provider", value |-> ProviderVector]
    ELSE IF IsDevelopment(env)
         THEN [origin |-> "fallback", value |-> generateFallbackEmbedding(text)]
         ELSE [origin |-> "null", value |-> NullEmbedding]

InitEmbedSpec ==
    /\ InitSearch /\ InitRagEmpty /\ InitStore /\ InitWs /\ InitAdm /\ InitCache
    /\ InitClient
    /\ \E env \in NodeEnvs : embed = [env |-> env, calls |-> <<>>, charFreq |-> <<>>]

\* One call of generateEmbedding.
EmbedCall ==
    \E text \in Texts, outcome \in ProviderOutcomes :
        LET r == generateEmbedding(text, embed.env, outcome)
        IN  /\ Len(embed.calls) < MaxEmbedCalls
            /\ embed' = [embed EXCEPT
                   !.calls = Append(@, [text |-> text, outcome |-> outcome] @@ r),
                   !.charFreq = IF r.origin = "fallback" THEN CharFreqOf(text) ELSE @]
            /\ UNCHANGED <<searchVars, ragVars, storeVars, wsVars, admVars>>
            /\ UNCHANGED <<cacheVars, clientVars>>

NextEmbed == EmbedCall

SpecEmbed == InitEmbedSpec /\ [][NextEmbed]_vars

\* C24: when the provider fails, generateEmbedding returns the fallback
\* vector only in development mode; in every other mode it returns null
\* and never a fallback vector.
C24_FallbackOnlyInDevelopment ==
    \A i \in 1..Len(embed.calls) :
        LET call == embed.calls[i]
        IN  call.outcome # "ok" =>
                IF embed.env = "development"
                THEN /\ call.origin = "fallback"
                     /\ Len(call.value) = FallbackDim
                ELSE /\ call.origin = "null"
                     /\ call.value = NullEmbedding

\* C24 witness: the provider failed in production mode and in another call
\* of the same process it answered.
C24_Witness ==
    /\ embed.env = "production"
    /\ \E i, j \in 1..Len(embed.calls) :
           /\ embed.calls[i].outcome = "httpError"
           /\ embed.calls[i].value = NullEmbedding
           /\ embed.calls[j].outcome = "ok"

MaxChecks == 7
MaxInFlight == 1

\* ConnectionProvider.tsx:148  connectionAttempts >= 5
OFFLINE_AFTER == 5

\* ConnectionProvider.tsx:35-66  where the offline preference is looked for
Startups == {"none", "url", "flag", "stored", "replit"}

\* The values the functions of a render see.
Closure(p) == [offlineMode |-> p.offlineMode,
               connectionAttempts |-> p.connectionAttempts]

\* Mutant: the offline branch is never taken.
OfflineBranchNever(closure) == FALSE

\* ConnectionProvider.tsx:110  if (offlineMode)
OfflineBranch(closure) == closure.offlineMode

\* ConnectionProvider.tsx:111-113
CheckedOffline(p) ==
    [p EXCEPT !.status = "disconnected", !.isReachable = FALSE, !.lastChecked = TRUE]

\* Mutant: reachable static content counts as connected.
ProbedStatusOneTier(apiConnected, staticConnected) ==
    IF apiConnected \/ staticConnected THEN "connected" ELSE "disconnected"

\* ConnectionProvider.tsx:121-142  the status the probes lead to
ProbedStatus(apiConnected, staticConnected) ==
    IF apiConnected THEN "connected"
    ELSE IF staticConnected THEN "degraded"
    ELSE "disconnected"

\* A checkConnection call that has returned: who started it, what its
\* closure held, what its probes found, what it returned, and the status
\* of the component when its updates were rendered.
Completed(origin, closure, api, static, result, p) ==
    [kind |-> "check", origin |-> origin, offlineMode |-> closure.offlineMode,
     api |-> api, static |-> static, result |-> result, status |-> p.status]

\* ConnectionProvider.tsx:109-119  checkConnection up to its first await:
\* the offline branch returns, otherwise the API probe is issued
BeginCheck(origin, closure, p, inFlight) ==
    IF OfflineBranch(closure)
    THEN [provider |-> CheckedOffline(p), checks |-> inFlight, returned |-> TRUE]
    ELSE [provider |-> p,
          checks   |-> Append(inFlight, [origin |-> origin, closure |-> closure,
                                         pc |-> "api"]),
          returned |-> FALSE]

\* ConnectionProvider.tsx:217-236  the periodic effect, run when offlineMode
\* changed: the timers of the previous run are cleared, and new ones are
\* set, with the checkConnection of this render, unless offlineMode is on
PeriodicEffect(old, new, eff) ==
    IF new.offlineMode = old.offlineMode THEN eff
    ELSE IF new.offlineMode THEN NoEffect
    ELSE [quickCheck |-> TRUE, interval |-> TRUE] @@ Closure(new)

\* ConnectionProvider.tsx:239-254  the toast effect, run when status,
\* checkCount or offlineMode changed
ToastEffect(old, new) ==
    IF <<new.status, new.checkCount, new.offlineMode>>
           = <<old.status, old.checkCount, old.offlineMode>>
    THEN {}
    ELSE IF new.status = "disconnected" /\ new.checkCount > 0 /\ ~new.offlineMode
    THEN {"Connection issue"}
    ELSE IF new.status = "degraded" /\ new.checkCount > 0
    THEN {"Limited connectivity"}
    ELSE {}

\* The updates of one event are rendered: the state is committed and the
\* effects are run.  eff: the timers still pending; toasts: the ones the
\* event itself showed.  The log keeps the toasts of the latest event.
Render(new, eff, toasts, log) ==
    /\ provider' = new
    /\ effect' = PeriodicEffect(provider, new, eff)
    /\ clientLog' = [log EXCEPT !.toasts = toasts \cup ToastEffect(provider, new)]

FullyFailed(done) == done.api = "fail" /\ done.static = "fail"

\* A check returned: the run of consecutive fully failed checks, and
\* whether all of them were started by the timers.
CheckReturned(log, done) ==
    [log EXCEPT
        !.last = done,
        !.failedRun = IF FullyFailed(done) THEN @ + 1 ELSE 0,
        !.timerOnly = IF FullyFailed(done)
                      THEN (log.failedRun = 0 \/ @) /\ done.origin = "timer"
                      ELSE TRUE]

\* A checkConnection call was made; it has returned if it took the offline
\* branch.
CheckCalled(log, begun, origin, closure, new) ==
    LET counted == [log EXCEPT !.started = @ + 1]
    IN  IF begun.returned
        THEN CheckReturned(counted, Completed(origin, closure, "none", "none", FALSE, new))
        ELSE counted

MayCheck == clientLog.started < MaxChecks /\ Len(checks) < MaxInFlight

\* ConnectionProvider.tsx:171-184  handleSetOfflineMode(true)
WentOffline(p) ==
    [p EXCEPT !.offlineMode = TRUE, !.status = "disconnected", !.stored = TRUE]

\* ConnectionProvider.tsx:170, 186-194  handleSetOfflineMode(false), before
\* its checkConnection()
WentOnline(p) ==
    [p EXCEPT !.offlineMode = FALSE, !.status = "connecting",
              !.connectionAttempts = 0, !.stored = FALSE]

\* ConnectionProvider.tsx:206-236  the effects of the first render: the
\* initial check, handleSetOfflineMode(true) if the URL asks for it, and the
\* timers of the periodic effect
Mount ==
    LET closure == Closure(provider)
        begun   == BeginCheck("mount", closure, provider, checks)
        after   == IF provider.startup = "url"
                   THEN WentOffline(begun.provider) ELSE begun.provider
        \* the preference has been read
        new     == [after EXCEPT !.mounted = TRUE, !.startup = "read"]
    IN  /\ ~provider.mounted
        /\ MayCheck
        /\ checks' = begun.checks
        /\ provider' = new
        /\ effect' = IF provider.offlineMode THEN NoEffect
                     ELSE [quickCheck |-> TRUE, interval |-> TRUE] @@ closure
        /\ clientLog' =
               [CheckCalled(clientLog, begun, "mount", closure, new) EXCEPT
                   !.toasts = ToastEffect(provider, new)
                                \cup (IF provider.startup = "url"
                                      THEN {"Offline mode enabled"} ELSE {})]
        /\ UNCHANGED <<searchVars, ragVars, storeVars, wsVars, admVars>>
        /\ UNCHANGED <<cacheVars, embedVars>>

\* ConnectionProvider.tsx:221-230  a timer of the periodic effect fires: the
\* checkConnection of the render that set the timer is called
TimerCheck(quick) ==
    LET closure == [offlineMode |-> effect.offlineMode,
                    connectionAttempts |-> effect.connectionAttempts]
        begun   == BeginCheck("timer", closure, provider, checks)
        new     == [begun.provider EXCEPT !.checkCount = @ + 1]
    IN  /\ provider.mounted
        /\ IF quick THEN effect.quickCheck ELSE effect.interval /\ ~effect.quickCheck
        /\ MayCheck
        /\ checks' = begun.checks
        /\ Render(new, [effect EXCEPT !.quickCheck = FALSE], {},
                  CheckCalled(clientLog, begun, "timer", closure, new))

\* ConnectionProvider.tsx:221-224  the timeout, 5 s after the effect ran
QuickCheck ==
    /\ TimerCheck(TRUE)
    /\ UNCHANGED <<searchVars, ragVars, storeVars, wsVars, admVars>>
    /\ UNCHANGED <<cacheVars, embedVars>>

\* ConnectionProvider.tsx:227-230  the interval, every 30 s
IntervalCheck ==
    /\ TimerCheck(FALSE)
    /\ UNCHANGED <<searchVars, ragVars, storeVars, wsVars, admVars>>
    /\ UNCHANGED <<cacheVars, embedVars>>

\* ConnectionProvider.tsx:257-265  a component calls the checkConnection of
\* the context, the one of the latest render
ContextCheck ==
    LET closure == Closure(provider)
        begun   == BeginCheck("context", closure, provider, checks)
    IN  /\ provider.mounted
        /\ MayCheck
        /\ checks' = begun.checks
        /\ Render(begun.provider, effect, {},
                  CheckCalled(clientLog, begun, "context", closure, begun.provider))
        /\ UNCHANGED <<searchVars, ragVars, storeVars, wsVars, admVars>>
        /\ UNCHANGED <<cacheVars, embedVars>>

\* ConnectionProvider.tsx:169-203  handleSetOfflineMode of the latest
\* render, called through the context
SetOfflineMode ==
    \E mode \in BOOLEAN :
        /\ provider.mounted
        /\ IF mode
           THEN /\ Render(WentOffline(provider), effect, {"Offline mode enabled"},
                          [clientLog EXCEPT !.toggle = [kind |-> "toggle", mode |-> TRUE,
                                                        wasOffline |-> provider.offlineMode,
                                                        probed |-> FALSE,
                                                        reset |-> FALSE]])
                /\ UNCHANGED checks
           ELSE LET closure == Closure(provider)
                    begun   == BeginCheck("toggle", closure, WentOnline(provider), checks)
                IN  /\ MayCheck
                    /\ checks' = begun.checks
                    /\ Render(begun.provider, effect, {"Checking connection"},
                              [CheckCalled(clientLog, begun, "toggle", closure, begun.provider)
                                  EXCEPT !.toggle = [kind |-> "toggle", mode |-> FALSE,
                                                     wasOffline |-> provider.offlineMode,
                                                     probed |-> ~begun.returned,
                                                     reset |->
                                                         begun.provider.connectionAttempts = 0]])
        /\ UNCHANGED <<searchVars, ragVars, storeVars, wsVars, admVars>>
        /\ UNCHANGED <<cacheVars, embedVars>>

Without(seq, i) == SubSeq(seq, 1, i - 1) \o SubSeq(seq, i + 1, Len(seq))

\* ConnectionProvider.tsx:71-89, 119-130  the API probe of a check answers:
\* connected, or the static probe is issued
ApiDone ==
    \E i \in 1..Len(checks), apiConnected \in BOOLEAN :
        /\ checks[i].pc = "api"
        /\ IF apiConnected
           THEN LET new == [provider EXCEPT
                               !.status = ProbedStatus(TRUE, FALSE),
                               !.isReachable = TRUE, !.lastChecked = TRUE,
                               !.connectionAttempts = 0]
                IN  /\ checks' = Without(checks, i)
                    /\ Render(new, effect, {},
                              CheckReturned(clientLog,
                                       Completed(checks[i].origin, checks[i].closure,
                                                 "ok", "none", TRUE, new)))
           ELSE /\ checks' = [checks EXCEPT ![i].pc = "static"]
                /\ UNCHANGED <<provider, effect, clientLog>>
        /\ UNCHANGED <<searchVars, ragVars, storeVars, wsVars, admVars>>
        /\ UNCHANGED <<cacheVars, embedVars>>

\* ConnectionProvider.tsx:148  connectionAttempts >= 5, read from the closure
TooManyFailures(closure) == closure.connectionAttempts >= OFFLINE_AFTER

\* ConnectionProvider.tsx:92-107, 130-157  the static probe of a check
\* answers: degraded, or disconnected and one more failed attempt
StaticDone ==
    \E i \in 1..Len(checks), staticConnected \in BOOLEAN :
        LET closure == checks[i].closure
            new == IF staticConnected
                   THEN [provider EXCEPT
                            !.status = ProbedStatus(FALSE, TRUE),
                            !.isReachable = TRUE, !.lastChecked = TRUE]
                   ELSE [provider EXCEPT
                            !.status = ProbedStatus(FALSE, FALSE),
                            !.isReachable = FALSE, !.lastChecked = TRUE,
                            !.connectionAttempts = @ + 1,
                            !.offlineMode = IF TooManyFailures(closure) THEN TRUE ELSE @]
        IN  /\ checks[i].pc = "static"
            /\ checks' = Without(checks, i)
            /\ Render(new, effect,
                      IF ~staticConnected /\ TooManyFailures(closure)
                      THEN {"Offline mode activated"} ELSE {},
                      CheckReturned(clientLog,
                               Completed(checks[i].origin, closure, "fail",
                                         IF staticConnected THEN "ok" ELSE "fail",
                                         staticConnected, new)))
        /\ UNCHANGED <<searchVars, ragVars, storeVars, wsVars, admVars>>
        /\ UNCHANGED <<cacheVars, embedVars>>

InitClientSpec ==
    /\ InitSearch /\ InitRagEmpty /\ InitStore /\ InitWs /\ InitAdm /\ InitCache
    /\ InitEmbed
    /\ \E startup \in Startups : provider = InitialProvider(startup)
    /\ effect = NoEffect
    /\ checks = <<>>
    /\ clientLog = NoClientLog

NextClient ==
    \/ Mount
    \/ QuickCheck
    \/ IntervalCheck
    \/ ContextCheck
    \/ SetOfflineMode
    \/ ApiDone
    \/ StaticDone

SpecClient == InitClientSpec /\ [][NextClient]_vars


CheckDone == clientLog.last.kind = "check"

\* C26: with offlineMode set, checkConnection sets status to disconnected
\* and returns false, and issues neither the API probe nor the static one.
C26_OfflineNoProbe ==
    (CheckDone /\ clientLog.last.offlineMode) =>
        /\ clientLog.last.api = "none"
        /\ clientLog.last.static = "none"
        /\ clientLog.last.result = FALSE
        /\ clientLog.last.status = "disconnected"

\* C26 witness: offline mode was switched on by the user and a component
\* then asked for a connection check.
C26_Witness ==
    /\ CheckDone
    /\ clientLog.last.offlineMode
    /\ clientLog.last.origin = "context"
    /\ provider.offlineMode
    /\ provider.status = "disconnected"
    /\ checks = <<>>

\* C27: with offlineMode off, a completed checkConnection sets status to
\* connected when the API probe succeeds (no static probe is made), to
\* degraded when the API probe fails and the static probe succeeds, to
\* disconnected when both fail; it returns true in the first two cases only.
C27_ProbeOutcome ==
    (CheckDone /\ ~clientLog.last.offlineMode) =>
        LET last == clientLog.last
        IN  /\ last.api \in {"ok", "fail"}
            /\ last.api = "ok" =>
                   /\ last.static = "none"
                   /\ last.status = "connected"
                   /\ last.result = TRUE
            /\ last.api = "fail" => last.static \in {"ok", "fail"}
            /\ (last.api = "fail" /\ last.static = "ok") =>
                   /\ last.status = "degraded"
                   /\ last.result = TRUE
            /\ (last.api = "fail" /\ last.static = "fail") =>
                   /\ last.status = "disconnected"
                   /\ last.result = FALSE

\* C27 witness: a check found the API unreachable and the static content
\* reachable.
C27_Witness ==
    /\ CheckDone
    /\ ~clientLog.last.offlineMode
    /\ clientLog.last.api = "fail"
    /\ clientLog.last.static = "ok"
    /\ provider.status = "degraded"
    /\ provider.isReachable

\* C28: when more than 5 checks in a row have failed on both tiers, the
\* client has switched to offlineMode and has shown the notification, also
\* when the timers started all of them.
C28_AutoOffline ==
    (CheckDone /\ FullyFailed(clientLog.last) /\ clientLog.failedRun > OFFLINE_AFTER) =>
        /\ provider.offlineMode
        /\ "Offline mode activated" \in clientLog.toasts

\* C29: the check started by handleSetOfflineMode(false) when offline mode
\* was on issues the probes, it does not return through the offline branch,
\* and the failure counter is 0 afterwards.
C29_ToggleOffProbes ==
    (clientLog.toggle.kind # "none" /\ ~clientLog.toggle.mode /\ clientLog.toggle.wasOffline) =>
        /\ clientLog.toggle.probed
        /\ clientLog.toggle.reset


\* The state is the one the last GET was answered in: no cache function
\* and no insert into the chat store has run since.
JustRead ==
    /\ lastHttp.kind = "get"
    /\ cacheLog.last.op = "get"
    /\ lastHttp.nextMessageId = chatMessageId

\* The list is the messages of the session in the chat store, in the order
\* of their creation.
IsStoredOrder(list, sessionId) ==
    /\ \A n \in 1..Len(list) : list[n] \in Range(chatMessages) /\ list[n].sessionId = sessionId
    /\ \A m \in Range(chatMessages) : m.sessionId = sessionId => m \in Range(list)
    /\ \A n1, n2 \in 1..Len(list) : n1 < n2 => list[n1].id < list[n2].id

\* C30: GET /chat/{sessionId} answers with the cached list when the cache
\* holds a non-empty list for the session, and otherwise (no entry, empty
\* list, failed read) with the messages of the session in the chat store, in
\* creation order.
C30_GetPrefersCache ==
    JustRead =>
        LET sid    == lastHttp.sessionId
            key    == MessagesKey(sid)
            tier   == cacheLog.last.tier
            held   == IF tier = "memory"
                      THEN IF key \in DOMAIN memoryCache THEN memoryCache[key] ELSE <<>>
                      ELSE IF key \in DOMAIN redisData THEN ParseList(redisData[key]) ELSE <<>>
        IN  /\ lastHttp.status = 200
            /\ IF ~cacheLog.last.failed /\ held # <<>>
               THEN lastHttp.messages = held
               ELSE IsStoredOrder(lastHttp.messages, sid)

\* C30 witness: the read of the cache was rejected while Redis held the
\* list of the session, and the answer came from the chat store.
C30_Witness ==
    /\ JustRead
    /\ cacheLog.last.tier = "redis"
    /\ cacheLog.last.failed
    /\ MessagesKey(lastHttp.sessionId) \in DOMAIN redisData
    /\ Len(lastHttp.messages) = 2
    /\ lastHttp.messages[1].id < lastHttp.messages[2].id


\* The all-zero vector of some dimension.
IsZeroVector(v) == v # <<>> /\ \A i \in 1..Len(v) : v[i] = 0

\* C31: cosineSimilarity returns 0 when either argument is the all-zero
\* vector of the other's dimension, whatever the other is, and its divisor
\* is never 0.
C31_ZeroVectorScoresZero ==
    (lastSearch.kind # "none" /\ lastSearch.call.qe # NullEmbedding) =>
        \A i \in 1..Len(vectorStore) :
            LET qe == lastSearch.call.qe
                e  == vectorStore[i].embedding
            IN  ~DimMismatch(qe, e) =>
                    /\ cosineSimilarity(qe, e).den2 > 0
                    /\ cosineSimilarity(e, qe).den2 > 0
                    /\ (IsZeroVector(qe) \/ IsZeroVector(e)) =>
                           /\ cosineSimilarity(qe, e).num = 0
                           /\ cosineSimilarity(e, qe).num = 0
                           /\ ~PassesThreshold([score |-> cosineSimilarity(qe, e)])
                           /\ \A n \in 1..Len(lastSearch.docs) :
                                  lastSearch.docs[n].chunkText # vectorStore[i].chunkText

\* C31 witness: the zero vector was searched for, with k > 0, over an index
\* that holds a non-zero vector and the zero vector; nothing was returned.
C31_Witness ==
    /\ lastSearch.kind = "return"
    /\ lastSearch.error = "none"
    /\ lastSearch.call.k > 0
    /\ IsZeroVector(lastSearch.call.qe)
    /\ \E i, j \in 1..Len(vectorStore) :
           /\ IsZeroVector(vectorStore[i].embedding)
           /\ ~IsZeroVector(vectorStore[j].embedding)
    /\ lastSearch.docs = <<>>


\* The chunks of the index before the step are, unchanged and in the same
\* places, the first chunks of the index after it.
IndexKept ==
    /\ Len(vectorStore') >= Len(vectorStore)
    /\ \A i \in 1..Len(vectorStore) : vectorStore'[i] = vectorStore[i]

\* C38: addEmbeddingToVectorStore appends one chunk at the end and changes
\* no chunk, and searchVectorStore leaves the index as it is: the index only
\* grows and the order of its chunks never changes.
C38_IndexAppendOnly ==
    [][/\ IndexKept
       /\ Len(vectorStore') <= Len(vectorStore) + 1
       /\ lastSearch'.kind # "none" => vectorStore' = vectorStore]_vars

\* C38 witness: a search returned the second chunk of the index before the
\* first one, and the index holds them in the order they were added.
C38_Witness ==
    /\ lastSearch.kind = "return"
    /\ Len(lastSearch.docs) = 2
    /\ lastSearch.docs[1].chunkText = 2
    /\ lastSearch.docs[2].chunkText = 1
    /\ \A i \in 1..Len(vectorStore) : vectorStore[i].id = i


\* The decay timers of address ip that have not fired.
PendingTimers(ip) == {i \in DOMAIN timers : timers[i].ip = ip}

\* The connections of address ip admitted less than a window ago, and those
\* admitted exactly a window ago, whose decay timer is due at this moment.
AdmittedWithin(ip) ==
    {c \in DOMAIN conns : conns[c].ip = ip /\ now - conns[c].at < RESET_TIME}
AdmittedWindowAgo(ip) ==
    {c \in DOMAIN conns : conns[c].ip = ip /\ now - conns[c].at = RESET_TIME}

CounterCountsPending ==
    \A ip \in IPs :
        /\ Attempts(ip) >= 0
        /\ Attempts(ip) <= MAX_ATTEMPTS + 1
        /\ Attempts(ip) = Cardinality(PendingTimers(ip))
        /\ \A i \in PendingTimers(ip) :
               \E c \in AdmittedWithin(ip) \cup AdmittedWindowAgo(ip) :
                   conns[c].at + RESET_TIME = timers[i].due
        /\ Attempts(ip) >= Cardinality(AdmittedWithin(ip))
        /\ Attempts(ip) <= Cardinality(AdmittedWithin(ip) \cup AdmittedWindowAgo(ip))
        /\ ~TimerDue => Attempts(ip) = Cardinality(AdmittedWithin(ip))

\* What one attempt does: it is admitted exactly when it finds the counter
\* of its address at most MAX_ATTEMPTS, and a refused attempt changes neither
\* the counters, the timers, the registry nor any connection's frames.
AttemptStep ==
    (lastAttempt' # lastAttempt) => \A ip \in IPs : (ip = lastAttempt'.ip) =>
        /\ lastAttempt'.outcome = "admitted" <=> Attempts(ip) <= MAX_ATTEMPTS
        /\ lastAttempt'.outcome = "admitted" =>
               /\ Attempts(ip)' = Attempts(ip) + 1
               /\ Len(timers') = Len(timers) + 1
               /\ Len(conns') = Len(conns) + 1
        /\ lastAttempt'.outcome = "refused" =>
               UNCHANGED <<connectionAttempts, timers, sessions, conns>>

\* C32: the attempt counter of every address is between 0 and
\* MAX_ATTEMPTS + 1 and equals the number of connections of the address
\* admitted within the last 60 seconds whose decay timer has not fired; a
\* refused attempt leaves counter, timers, registry and frames as they
\* were; exactly the attempts that find the counter at most 5 are admitted.
C32_CounterCountsPendingTimers ==
    []CounterCountsPending /\ [][AttemptStep]_vars

\* C32 witness: after the clock had advanced, an address whose counter
\* stands at MAX_ATTEMPTS + 1, with as many decay timers pending, was
\* refused, while the other address has a counter below the threshold.
C32_Witness ==
    /\ lastAttempt.kind = "attempt"
    /\ lastAttempt.outcome = "refused"
    /\ Attempts(lastAttempt.ip) = MAX_ATTEMPTS + 1
    /\ Cardinality(PendingTimers(lastAttempt.ip)) = MAX_ATTEMPTS + 1
    /\ now > 0
    /\ \E ip \in IPs : ip # lastAttempt.ip /\ Attempts(ip) < MAX_ATTEMPTS


\* The session ids that have a message in the chat store or a list in the
\* cache.
SessionsSeen ==
    { m.sessionId : m \in Range(chatMessages) }
    \cup { k[2] : k \in { key \in DOMAIN memoryCache \cup DOMAIN redisData :
                              key[1] = "chat_messages" } }

\* The list the active tier holds under chat_messages:<sessionId>.
CachedMessages(sessionId) ==
    IF redisClient = "memory" THEN memoryCache[MessagesKey(sessionId)]
    ELSE ParseList(redisData[MessagesKey(sessionId)])

\* A createChatMessage on the session has inserted its message and has not
\* yet written the cache.
InsertInFlight(sessionId) ==
    \E t \in DOMAIN tasks :
        tasks[t].pc \in {"userCache", "botCache"} /\ tasks[t].data.sessionId = sessionId

\* C33: when no createChatMessage and no clear of the session is in flight,
\* the list cached under chat_messages:<sessionId>, if there is one, is the
\* list of the messages of the session in the chat store, in the order of
\* their creation.
C33_CachedListEqualsStore ==
    \A sid \in SessionsSeen :
        (~InsertInFlight(sid) /\ CacheHolds(MessagesKey(sid))) =>
            CachedMessages(sid) = getChatMessagesBySessionId(chatMessages, sid)


\* C34: whenever offlineMode is on and a connection check has completed,
\* status is disconnected, also when a probe that was started before
\* offlineMode was switched on answers after it.
C34_OfflineOverridesProbe ==
    (provider.offlineMode /\ CheckDone) => provider.status = "disconnected"


(***************************************************************************)
(* SpecTurn: processUserQuery on either tier while the Redis connection    *)
(* comes and goes.  A query may fail to embed, its article lookup may      *)
(* reject, its generation may fail and the commands of addChatToHistory    *)
(* may be rejected.                                                        *)
(***************************************************************************)
\* rag.ts:18-84  one processUserQuery call
TierQuery ==
    \E sid \in WsSessionIds, query \in {"q1", "q2"}, qe \in WsQueryVectors :
    \E lookupFails \in IF ReachesLookup(qe) THEN BOOLEAN ELSE {FALSE} :
    \E genFails \in IF ReachesLookup(qe) /\ ~lookupFails THEN BOOLEAN ELSE {FALSE} :
    \E pushFails \in IF ReachesLookup(qe) /\ ~lookupFails THEN Rejections ELSE {FALSE} :
    \E expireFails \in IF pushFails \/ ~ReachesLookup(qe) \/ lookupFails
                       THEN {FALSE} ELSE Rejections :
        LET r == processUserQueryTier(vectorStore, newsArticles, qe,
                                      lookupFails, genFails, pushFails \/ expireFails)
        IN  /\ cacheLog.ops < MaxCacheOps
            /\ genCalls' = IF r.genCalled THEN genCalls + 1 ELSE genCalls
            /\ IF r.persisted
               THEN addChatToHistoryTier(sid, Turn(query, r), pushFails, expireFails)
               ELSE UNCHANGED <<memoryCache, redisData, cacheLog>>
            /\ lastRag' = [call |-> [sessionId |-> sid, query |-> query,
                                     tier |-> redisClient,
                                     turn |-> Turn(query, r),
                                     lookupFails |-> lookupFails,
                                     pushFails |-> pushFails,
                                     expireFails |-> expireFails],
                           search |-> searchVectorStore(vectorStore, qe, RagTopK)]
                          @@ r
            /\ UNCHANGED <<newsArticles, redisClient, redisStatus, lastHttp>>
            /\ UNCHANGED <<searchVars, storeVars, wsVars, admVars>>
    /\ UNCHANGED <<embedVars, clientVars>>

NextTurn ==
    \/ RedisConnected
    \/ RedisConnectFailed
    \/ RedisErrorEvent
    \/ RedisClosed
    \/ RedisReconnected
    \/ TierQuery

SpecTurn == InitCacheSpec /\ [][NextTurn]_vars

\* The chat:<sessionId> list of the active tier, newest turn first.
HistoryOf(tier, mem, data, sessionId) ==
    LET key == HistoryKey(sessionId)
    IN  IF tier = "memory"
        THEN IF key \in DOMAIN mem THEN mem[key] ELSE <<>>
        ELSE IF key \in DOMAIN data
             THEN [n \in 1..Len(data[key]) |-> ParseTurn(data[key][n])]
             ELSE <<>>

\* One processUserQuery call: the history of its session gets the turn as
\* its new head exactly when generation was invoked and is left as it was
\* otherwise, no other history changes, and generation is invoked at most
\* once.
TurnStep ==
    (lastRag' # lastRag) =>
        LET sid    == lastRag'.call.sessionId
            before == HistoryOf(redisClient, memoryCache, redisData, sid)
            after  == HistoryOf(redisClient, memoryCache', redisData', sid)
        IN  /\ lastRag'.genCalled <=>
                   after = << ParseTurn(StringifyTurn(lastRag'.call.turn)) >> \o before
            /\ ~lastRag'.genCalled => after = before
            /\ (lastRag'.search.docs = <<>> \/ lastRag'.message = ErrorMsg) =>
                   after = before /\ ~lastRag'.genCalled
            /\ genCalls' = genCalls + (IF lastRag'.genCalled THEN 1 ELSE 0)

\* C35: a turn is pushed to chat:<sessionId> for a query if and only if
\* generation was invoked for it; a query that exits early or ends in the
\* error response leaves the history as it was; generation is invoked at
\* most once per query.
C35_TurnPushedIffGenerated == [][TurnStep]_vars


(***************************************************************************)
(* SpecWsFair: the transport when every continuation that can run does     *)
(* run and every call of the orchestrator returns.                         *)
(***************************************************************************)
SpecWsFair ==
    /\ SpecWs
    /\ WF_vars(WsHandoff) /\ WF_vars(WsCreated) /\ WF_vars(WsUserCache)
    /\ WF_vars(WsRag) /\ WF_vars(WsStoreBot) /\ WF_vars(WsBotCache)

\* The bot and error frames sent for the frame that handler t handles.
TerminalFrames(t) == FramesOf(t, "bot") \cup FramesOf(t, "error")

WsFrame(t) == t \in DOMAIN tasks /\ tasks[t].kind = "ws"

\* At no moment has a frame more than one terminal frame; it has one exactly
\* when its handler has ended, a bot frame if it was valid and an error
\* frame otherwise; a typing frame is sent only for a valid frame.
OneTerminalFrame ==
    \A t \in DOMAIN tasks :
        WsFrame(t) =>
            /\ Cardinality(TerminalFrames(t)) <= 1
            /\ tasks[t].pc = "done" <=> Cardinality(TerminalFrames(t)) = 1
            /\ FramesOf(t, "bot") # {} => ValidWs(t)
            /\ FramesOf(t, "error") # {} => ~ValidWs(t)
            /\ FramesOf(t, "typing") # {} => ValidWs(t)
            /\ \A i \in FramesOf(t, "typing"), j \in TerminalFrames(t) : i < j

\* Every frame received so far has its terminal frame.  A frame that has
\* it keeps it, so the frames are all answered again and again exactly
\* when each of them is answered at some moment after it was received.
AllAnswered ==
    \A t \in DOMAIN tasks : WsFrame(t) => Cardinality(TerminalFrames(t)) = 1

\* C36: every frame received on an open connection is answered by exactly
\* one terminal frame, a bot frame or an error frame, never both and, when
\* the calls it awaits return, never none; a typing frame is sent only for
\* a frame that passed validation.
C36_OneTerminalFramePerFrame ==
    /\ []OneTerminalFrame
    /\ []<>AllAnswered

\* C36 witness: the JSON text null was answered by one error frame and no
\* typing frame, and the valid frame after it by a typing frame and then
\* one bot frame.
C36_Witness ==
    \E t, t2 \in DOMAIN tasks :
        /\ WsFrame(t) /\ tasks[t].data.json /\ tasks[t].data.isNull
        /\ Cardinality(FramesOf(t, "error")) = 1
        /\ FramesOf(t, "typing") = {} /\ FramesOf(t, "bot") = {}
        /\ WsFrame(t2) /\ ValidWs(t2) /\ tasks[t2].pc = "done"
        /\ Cardinality(FramesOf(t2, "bot")) = 1
        /\ FramesOf(t2, "typing") # {} /\ FramesOf(t2, "error") = {}


(***************************************************************************)
(* SpecReg: the registry while connections are admitted, send frames that  *)
(* carry their own session id, a client's or another connection's, and     *)
(* close, also while a handler is still at work.                           *)
(***************************************************************************)
MaxRegTasks == 1

RegConnect ==
    /\ Quiescent
    /\ Len(conns) < MaxLifeConns
    /\ \E ip \in {"a"} : Connect(ip)
    /\ UNCHANGED <<tasks, now>>
    /\ UNCHANGED <<searchVars, ragVars, storeVars>>
    /\ UNCHANGED cacheVars
    /\ UNCHANGED <<embedVars, clientVars>>

RegMessage ==
    \E c \in DOMAIN conns :
    \E sid \in WsSessionIds \cup { conns[d].sessionId : d \in DOMAIN conns } :
        /\ Len(tasks) < MaxRegTasks
        /\ WsReceive(c, Payload(sid, "hello"))

RegClose == \E c \in DOMAIN conns : Quiescent /\ WsClose(c)

NextReg ==
    \/ RegConnect
    \/ RegMessage
    \/ RegClose
    \/ WsHandoff
    \/ WsCreated
    \/ WsUserCache
    \/ WsRag
    \/ WsStoreBot
    \/ WsBotCache

SpecReg == InitWsSpec /\ [][NextReg]_vars

\* The session ids assigned to the admitted connections that are open.
OpenIds == { conns[c].sessionId : c \in { d \in DOMAIN conns : conns[d].open } }

RegistryExact ==
    /\ DOMAIN sessions = OpenIds
    /\ \A c \in DOMAIN conns : conns[c].open => sessions[conns[c].sessionId] = c
    /\ \A c, d \in DOMAIN conns : conns[c].sessionId = conns[d].sessionId => c = d

\* A step of a frame's handler, the hand-off among them, leaves the
\* registry as it is.
HandlerKeepsRegistry == (tasks' # tasks) => sessions' = sessions

\* C37: the keys of the sessions map are exactly the session ids assigned to
\* the admitted connections that have not closed, each id maps to its own
\* socket, no two connections share an id, and a frame that carries another
\* session id than the assigned one never changes the registry.
C37_RegistryExact == []RegistryExact /\ [][HandlerKeepsRegistry]_vars

\* C37 witness: of two admitted connections one has closed; the open one has
\* sent a frame that carries the id of the closed one, its hand-off has
\* created the session record, and the registry holds the open connection
\* alone, under its assigned id.
C37_Witness ==
    \E c, d \in DOMAIN conns, t \in DOMAIN tasks :
        /\ conns[c].open /\ ~conns[d].open
        /\ tasks[t].kind = "ws" /\ tasks[t].conn = c
        /\ tasks[t].data.sessionId = conns[d].sessionId
        /\ tasks[t].pc \in {"created", "userCache", "rag", "storeBot", "botCache", "done"}
        /\ \E i \in DOMAIN chatSessions : chatSessions[i].sessionId = conns[d].sessionId
        /\ DOMAIN sessions = {conns[c].sessionId}

====
